---------------------------- MODULE Spec2Model ----------------------------
(***************************************************************************)
(* A model of the tutoring chat application: the chat component            *)
(* (ChatInterface.tsx), the page that owns the panels (page.tsx) and the   *)
(* two variants of the chat route that answer the component's requests     *)
(* (app/api/chat/route.ts, the global-scan route, and the route with       *)
(* history validation and first-match extraction).  Further parts: the     *)
(* DELETE handler of the streaming route, the graph panel's calculator     *)
(* (GraphPanel.tsx) and the drawing canvas (CanvasPanel.tsx).              *)
(*                                                                         *)
(* Conventions.  An optional value (null / undefined in the code) is a     *)
(* sequence of length 0 or 1: Null is <<>>, Some(v) is <<v>>.  A text the  *)
(* user types is a sequence of tokens, so that trim, toLowerCase and       *)
(* includes are computed, not assumed.  A model reply is a record: whether *)
(* it has prose, and the ```json fences it holds, in order.                *)
(*                                                                         *)
(* The hook useLocalStorage is imported by the component but its file is   *)
(* not part of the sources; setters built from it are modelled as React    *)
(* state setters: a functional update sees the latest stored value.        *)
(***************************************************************************)
EXTENDS Integers, Sequences, FiniteSets, TLC

VARIABLES
    currentChatId,            \* ChatInterface: the conversation shown
    chatHistory,              \* ChatInterface: conversation id -> messages
    input,                    \* ChatInterface: the text in the input box
    isLoading,                \* ChatInterface: the loading flag
    selectedFile,             \* ChatInterface: the file picked, or Null
    isCanvasOpen,             \* page: the canvas sheet is open
    isGraphOpen,              \* page: the graph sheet is open
    currentDesmosExpressions, \* page: the list handed to GraphPanel, or Null
    canvasGetter,             \* page: getCanvasDataUrlFuncRef.current is set
    tasks,                    \* handler invocations suspended at an await
    nextId,                   \* source of fresh ids (uuidv4)
    deployed,                 \* which variant of the chat route answers
    nextChatId,               \* source of fresh conversation ids (uuidv4)
    call,                     \* route probe: the last direct request
    calculator,               \* GraphPanel: calculatorRef.current, its plot
    mcqAnswers,               \* ChatInterface: quiz question -> option picked
    mcqResults,               \* ChatInterface: quiz question -> correct?
    db,                       \* persisted history: chat id -> owner's user id
    canvasLines,              \* CanvasPanel: the strokes on the canvas
    canvasHistory,            \* CanvasPanel: the undo stack
    isDesmosLoading,          \* GraphPanel: no poll has found Desmos yet
    pollPending,              \* GraphPanel: the 100 ms poll interval is set
    graphClosedOnce,          \* history: the graph panel was open and closed
    resolvedAway,             \* history: calls resolved while another
                              \* conversation than theirs was shown
    strokeCount               \* history: strokes started on the canvas

vars == << currentChatId, chatHistory, input, isLoading, selectedFile,
           isCanvasOpen, isGraphOpen, currentDesmosExpressions, canvasGetter,
           tasks, nextId, nextChatId, deployed, call, calculator, mcqAnswers,
           mcqResults, db, canvasLines, canvasHistory, isDesmosLoading,
           pollPending, graphClosedOnce, resolvedAway, strokeCount >>

uiVars == << currentChatId, chatHistory, input, isLoading, selectedFile,
             isCanvasOpen, isGraphOpen, currentDesmosExpressions,
             canvasGetter, tasks, nextId, nextChatId, deployed, calculator,
             mcqAnswers, mcqResults, db, canvasLines, canvasHistory,
             isDesmosLoading, pollPending, graphClosedOnce, resolvedAway,
             strokeCount >>

----------------------------------------------------------------------------
(* Bounds of the model. *)

\* messages in the history of a direct request to the route
MaxHistory == 3
\* ```json fences in one model reply of a direct request
MaxFences == 2
\* submissions (text or file) in one run of the chat component
MaxSubmits == 2
\* conversations created in one run of the chat component
MaxChats == 2
\* strokes started in one run of the canvas panel
MaxStrokes == 4

----------------------------------------------------------------------------
(* Optional values and small helpers. *)

Null == << >>
Some(v) == << v >>
IsNull(o) == Len(o) = 0
Val(o) == o[1]

Roles == {"user", "model"}

RECURSIVE SeqsUpTo(_, _)
SeqsUpTo(S, n) ==
    IF n = 0 THEN { << >> }
    ELSE LET shorter == SeqsUpTo(S, n - 1)
         IN  shorter \cup { Append(s, x) : s \in shorter, x \in S }

IsPrefix(s, t) == Len(s) <= Len(t) /\ SubSeq(t, 1, Len(s)) = s

----------------------------------------------------------------------------
(* Texts: String.prototype.trim, toLowerCase and includes on token         *)
(* sequences.  " " is a whitespace token; "@Canvas" is "@canvas" in mixed  *)
(* case; "@graph" contains the trigger "graph".                            *)

IsSpace(tok) == tok = " "

RECURSIVE TrimStart(_)
TrimStart(s) ==
    IF s # << >> /\ IsSpace(Head(s)) THEN TrimStart(Tail(s)) ELSE s

RECURSIVE TrimEnd(_)
TrimEnd(s) ==
    IF s # << >> /\ IsSpace(s[Len(s)])
    THEN TrimEnd(SubSeq(s, 1, Len(s) - 1)) ELSE s

Trim(s) == TrimEnd(TrimStart(s))

ToLowerCase(tok) ==
    CASE tok = "@Canvas" -> "@canvas"
      [] tok = "Plot"    -> "plot"
      [] OTHER           -> tok

TokenSubstrings(tok) ==
    CASE tok = "@graph"  -> {"@graph", "graph"}
      [] tok = "@canvas" -> {"@canvas"}
      [] tok = "plot"    -> {"plot"}
      [] OTHER           -> { }

\* message.toLowerCase().includes(trigger)
Includes(msg, trigger) ==
    \E i \in 1..Len(msg) : trigger \in TokenSubstrings(ToLowerCase(msg[i]))

graphTriggers == {"@graph", "graph", "plot", "equation", "function",
                  "sine wave", "linear function", "quadratic", "trigonometric"}

----------------------------------------------------------------------------
(* Model replies.  A fence is what one match of                            *)
(*   /```json\s*(\{[\s\S]*?\})\s*```/                                      *)
(* captures: text that JSON.parse accepts or rejects, and, when accepted,  *)
(* the desmos_expressions and mcqs members of the object ("absent", an     *)
(* "array", or some "other" truthy value that is not an array).            *)

Mcq(q, opts, ca, hasExpl, expl) ==
    [question |-> q, options |-> opts, correctAnswer |-> ca,
     hasExplanation |-> hasExpl, explanation |-> expl]

Fence(parses, dk, d, mk, m) ==
    [parses |-> parses, desmosKind |-> dk, desmos |-> d,
     mcqsKind |-> mk, mcqs |-> m]

Text(prose, fences) == [prose |-> prose, fences |-> fences]

\* text === "" (what `data.reply || ...` tests)
IsEmptyText(t) == ~t.prose /\ t.fences = << >>

QuizGood    == Mcq("Q1", <<"A", "B", "C">>, "B", TRUE, "why")
QuizNoExpl  == Mcq("Q2", <<"A", "B">>, "A", FALSE, "")
QuizWrong   == Mcq("Q3", <<"A", "B">>, "C", TRUE, "why")

MalformedFence == Fence(FALSE, "absent", << >>, "absent", << >>)
GraphFence(d)  == Fence(TRUE, "array", d, "absent", << >>)
QuizFence(m)   == Fence(TRUE, "absent", << >>, "array", m)
PlainFence     == Fence(TRUE, "absent", << >>, "absent", << >>)
NotArrayFence  == Fence(TRUE, "other", << >>, "other", << >>)

\* expr.trim().length > 0
IsBlank(expr) == expr \in {"", " "}

RECURSIVE DropBlank(_)
DropBlank(exprs) ==
    IF exprs = << >> THEN << >>
    ELSE IF IsBlank(Head(exprs)) THEN DropBlank(Tail(exprs))
         ELSE << Head(exprs) >> \o DropBlank(Tail(exprs))

DefaultExplanation(ca) ==
    CASE ca = "A" -> "The correct answer is A because..."
      [] ca = "B" -> "The correct answer is B because..."
      [] OTHER    -> "The correct answer is C because..."

----------------------------------------------------------------------------
(* The global-scan route, app/api/chat/route.ts.                           *)

\* a variant of ScanFences whose try block encloses the whole loop
RECURSIVE ScanFences_stopAtMalformed(_, _)
ScanFences_stopAtMalformed(fences, acc) ==
    IF fences = << >> THEN acc
    ELSE IF ~Head(fences).parses THEN acc
    ELSE LET f == Head(fences)
             d == IF f.desmosKind = "array" THEN f.desmos ELSE acc.desmosExpressions
             m == IF f.mcqsKind = "array" THEN Some(f.mcqs) ELSE acc.mcqData
         IN  ScanFences_stopAtMalformed(Tail(fences),
                                        [desmosExpressions |-> d, mcqData |-> m])

\* a variant of ScanFences that keeps the first array of each kind it finds
RECURSIVE ScanFences_keepFirst(_, _)
ScanFences_keepFirst(fences, acc) ==
    IF fences = << >> THEN acc
    ELSE LET f == Head(fences)
             d == IF f.parses /\ f.desmosKind = "array" /\ acc.desmosExpressions = << >>
                  THEN f.desmos ELSE acc.desmosExpressions
             m == IF f.parses /\ f.mcqsKind = "array" /\ IsNull(acc.mcqData)
                  THEN Some(f.mcqs) ELSE acc.mcqData
         IN  ScanFences_keepFirst(Tail(fences), [desmosExpressions |-> d, mcqData |-> m])

\* while ((match = jsonRegex.exec(text)) !== null) { try { ... } catch {} }
RECURSIVE ScanFences(_, _)
ScanFences(fences, acc) ==
    IF fences = << >> THEN acc
    ELSE LET f == Head(fences)
             d == IF f.parses /\ f.desmosKind = "array"
                  THEN f.desmos ELSE acc.desmosExpressions
             m == IF f.parses /\ f.mcqsKind = "array"
                  THEN Some(f.mcqs) ELSE acc.mcqData
         IN  ScanFences(Tail(fences), [desmosExpressions |-> d, mcqData |-> m])

\* a variant of ExtractStructuredData that tests length > 1
ExtractStructuredData_moreThanOne(text) ==
    LET r == ScanFences(text.fences, [desmosExpressions |-> << >>, mcqData |-> Null])
    IN  [desmosExpressions |-> IF Len(r.desmosExpressions) > 1
                               THEN Some(r.desmosExpressions) ELSE Null,
         mcqData |-> r.mcqData]

ExtractStructuredData(text) ==
    LET r == ScanFences(text.fences, [desmosExpressions |-> << >>, mcqData |-> Null])
    IN  [desmosExpressions |-> IF Len(r.desmosExpressions) > 0
                               THEN Some(r.desmosExpressions) ELSE Null,
         mcqData |-> r.mcqData]

\* imageRegex.test(canvasDataUrl), and the data after the comma
ImageRegexTest(url) == url \in {"data:image/png;base64,AAAA", "data:image/png;base64,"}
Base64Data(url) ==
    IF url \in {"data:image/png;base64,AAAA", "data:image/gif;base64,AAAA"}
    THEN "AAAA" ELSE ""
\* a variant of HasInlineImage without the test of the URL's shape
HasInlineImage_noShapeTest(url) == url # "" /\ Base64Data(url) # ""

HasInlineImage(url) == url # "" /\ ImageRegexTest(url) /\ Base64Data(url) # ""

NoDetails == [kind |-> "none", position |-> -1, expected |-> "", got |-> ""]

Response(status, error, details, reply, d, m, seeded, sent) ==
    [status |-> status, error |-> error, details |-> details, reply |-> reply,
     desmosExpressions |-> d, mcqData |-> m, seeded |-> seeded, sent |-> sent]

Parts(sys, msg, blocks, att, img) ==
    [systemInstruction |-> sys, message |-> msg, blocks |-> blocks,
     attachment |-> att, inlineImage |-> img]

isGraphQuery(message) == \E t \in graphTriggers : Includes(message, t)
isCanvasQuery(message) == Includes(message, "@canvas")

\* a variant of PromptBlocks whose canvas block ignores the graph triggers
PromptBlocks_canvasUngated(message) ==
    (IF isGraphQuery(message) THEN << "graph" >> ELSE << >>)
    \o (IF isCanvasQuery(message) THEN << "canvas" >> ELSE << >>)

\* processedMessage: the blocks appended to the message, in order
PromptBlocks(message) ==
    (IF isGraphQuery(message) THEN << "graph" >> ELSE << >>)
    \o (IF isCanvasQuery(message) /\ ~isGraphQuery(message)
        THEN << "canvas" >> ELSE << >>)

POST_route(req, outcome) ==
    IF req.message = << >>
    THEN Response(400, "Message is required", NoDetails, Null, Null, Null, Null, Null)
    ELSE
      LET geminiHistory == req.history
          parts == Parts(Len(req.history) = 0, req.message,
                         PromptBlocks(req.message), "none",
                         HasInlineImage(req.canvasDataUrl))
      IN  IF ~outcome.ok
          THEN Response(500, "Processing failed",
                        [NoDetails EXCEPT !.kind = "ModelError"],
                        Null, Null, Null, Some(geminiHistory), Some(parts))
          ELSE LET x == ExtractStructuredData(outcome.text)
               IN  Response(200, "", NoDetails, Some(outcome.text),
                            x.desmosExpressions, x.mcqData,
                            Some(geminiHistory), Some(parts))

----------------------------------------------------------------------------
(* The route with history validation and first-match extraction.           *)

expectedRole(i) == IF i % 2 = 0 THEN "user" ELSE "model"

\* a variant of ValidateHistory whose loop starts at 1
RECURSIVE ValidateHistory_fromOne(_, _)
ValidateHistory_fromOne(history, i) ==
    IF i = 0 THEN ValidateHistory_fromOne(history, 1)
    ELSE IF i >= Len(history) THEN -1
    ELSE IF history[i + 1].role # expectedRole(i) THEN i
         ELSE ValidateHistory_fromOne(history, i + 1)

\* for (let i = 0; i < history.length; i++) { if (...) throw ... }
\* the position (from 0) at which the loop throws, or -1 when it ends
RECURSIVE ValidateHistory(_, _)
ValidateHistory(history, i) ==
    IF i >= Len(history) THEN -1
    ELSE IF history[i + 1].role # expectedRole(i) THEN i
         ELSE ValidateHistory(history, i + 1)

\* a variant of extractMCQs that reads `mcq.option` for the options
extractMCQs_noOptions(text) ==
    IF text.fences = << >> THEN Null
    ELSE LET f == Head(text.fences)
         IN  IF f.parses /\ f.mcqsKind = "array"
             THEN Some([k \in 1..Len(f.mcqs) |->
                        Mcq(f.mcqs[k].question, << >>,
                            f.mcqs[k].correctAnswer, TRUE,
                            IF f.mcqs[k].hasExplanation /\ f.mcqs[k].explanation # ""
                            THEN f.mcqs[k].explanation
                            ELSE DefaultExplanation(f.mcqs[k].correctAnswer))])
             ELSE Null

\* text.match(jsonRegex): the first fence only
extractMCQs(text) ==
    IF text.fences = << >> THEN Null
    ELSE LET f == Head(text.fences)
         IN  IF f.parses /\ f.mcqsKind = "array"
             THEN Some([k \in 1..Len(f.mcqs) |->
                        Mcq(f.mcqs[k].question, f.mcqs[k].options,
                            f.mcqs[k].correctAnswer, TRUE,
                            IF f.mcqs[k].hasExplanation /\ f.mcqs[k].explanation # ""
                            THEN f.mcqs[k].explanation
                            ELSE DefaultExplanation(f.mcqs[k].correctAnswer))])
             ELSE Null

extractDesmosExpressions(text) ==
    IF text.fences = << >> THEN Null
    ELSE LET f == Head(text.fences)
         IN  IF f.parses /\ f.desmosKind = "array"
             THEN Some(DropBlank(f.desmos))
             ELSE Null

AttachmentKind(attachments) ==
    IF Len(attachments) = 0 THEN "none"
    ELSE IF attachments[1].isImage THEN "image" ELSE "file"

POST_validated(req, outcome) ==
    IF req.message = << >>
    THEN Response(400, "Message is required", NoDetails, Null, Null, Null, Null, Null)
    ELSE
      LET bad == ValidateHistory(req.history, 0)
          parts == Parts(TRUE, req.message, << >>,
                         AttachmentKind(req.attachments),
                         HasInlineImage(req.canvasDataUrl))
      IN  IF bad >= 0
          THEN Response(500, "Processing failed",
                        [kind |-> "InvalidSequence", position |-> bad,
                         expected |-> expectedRole(bad),
                         got |-> req.history[bad + 1].role],
                        Null, Null, Null, Null, Null)
          ELSE IF ~outcome.ok
          THEN Response(500, "Processing failed",
                        [NoDetails EXCEPT !.kind = "ModelError"],
                        Null, Null, Null, Some(req.history), Some(parts))
          ELSE Response(200, "", NoDetails, Some(outcome.text),
                        extractDesmosExpressions(outcome.text),
                        extractMCQs(outcome.text),
                        Some(req.history), Some(parts))

----------------------------------------------------------------------------
(* The one-shot route: no history, an optional attachmentData object, one  *)
(* generateContent call.                                                   *)

OneShotRequest(message, canvasDataUrl, attachmentData) ==
    [message |-> message, canvasDataUrl |-> canvasDataUrl,
     attachmentData |-> attachmentData]

\* attachmentData: whether mimeType starts with "image/", and whether both
\* mimeType and base64Data are there
AttachmentData(isImage, complete) == [isImage |-> isImage, complete |-> complete]

\* the part pushed for attachmentData: inline data, a text about the file,
\* or nothing
AttachmentPart(attachmentData) ==
    IF IsNull(attachmentData) \/ ~Val(attachmentData).complete THEN "none"
    ELSE IF Val(attachmentData).isImage THEN "image" ELSE "file"

isDocumentQuery(attachmentData) == ~IsNull(attachmentData)

\* processedMessage of the one-shot route
PromptBlocksOneShot(message, attachmentData) ==
    PromptBlocks(message)
    \o (IF isDocumentQuery(attachmentData) THEN << "document" >> ELSE << >>)

POST_oneshot(req, outcome) ==
    IF req.message = << >> /\ IsNull(req.attachmentData)
    THEN Response(400, "Message or attachment is required", NoDetails,
                  Null, Null, Null, Null, Null)
    ELSE
      LET parts == Parts(TRUE, req.message,
                         PromptBlocksOneShot(req.message, req.attachmentData),
                         AttachmentPart(req.attachmentData),
                         HasInlineImage(req.canvasDataUrl))
      IN  IF ~outcome.ok
          THEN Response(500, "AI model error",
                        [NoDetails EXCEPT !.kind = "ModelError"],
                        Null, Null, Null, Null, Some(parts))
          ELSE LET x == ExtractStructuredData(outcome.text)
               IN  Response(200, "", NoDetails, Some(outcome.text),
                            x.desmosExpressions, x.mcqData, Null, Some(parts))

Route(variant, req, outcome) ==
    IF variant = "validated" THEN POST_validated(req, outcome)
    ELSE POST_route(req, outcome)

----------------------------------------------------------------------------
(* The chat component: messages, conversations, requests.                  *)

Content(kind, tokens, reply) == [kind |-> kind, tokens |-> tokens, reply |-> reply]
EmptyText == Text(FALSE, << >>)
UserContent(tokens) == Content("typed", tokens, EmptyText)
FixedContent(kind) == Content(kind, << >>, EmptyText)

Message(id, role, content, mcqs, desmos, attachments) ==
    [id |-> id, role |-> role, content |-> content, mcqs |-> mcqs,
     desmosExpressions |-> desmos, attachments |-> attachments]

\* chatHistory[id] || []
Get(h, id) == IF id \in DOMAIN h THEN h[id] ELSE << >>
\* { ...prev, [id]: msgs }
Put(h, id, msgs) == [x \in DOMAIN h \cup {id} |-> IF x = id THEN msgs ELSE h[x]]
\* delete updatedHistory[id]
Remove(h, id) == [x \in DOMAIN h \ {id} |-> h[x]]

\* the effect of lines 91-98: the conversation shown always has an entry
InitEffect(h, cur) == IF cur \in DOMAIN h THEN h ELSE Put(h, cur, << >>)

\* .filter(role is user or model).map(({ role, content }) => ({ role, content }))
ApiHistory(msgs) ==
    [k \in 1..Len(msgs) |-> [role |-> msgs[k].role, content |-> msgs[k].content]]

\* a variant of apiHistoryOfSubmit that puts the new message first
apiHistoryOfSubmit_newFirst(closureMessages, newUserMessage) ==
    ApiHistory(<< newUserMessage >> \o closureMessages)

\* handleSubmit, lines 291-293: the history put in the request
apiHistoryOfSubmit(closureMessages, newUserMessage) ==
    ApiHistory(Append(closureMessages, newUserMessage))

\* handleFileUpload, lines 168-171 and 182-184
updatedMessagesOfUpload(closureMessages, newUserMessage) ==
    Append(closureMessages, newUserMessage)

Request(history, message, canvasDataUrl, attachments) ==
    [history |-> history, message |-> message,
     canvasDataUrl |-> canvasDataUrl, attachments |-> attachments]

File(type, overLimit) == [type |-> type, overLimit |-> overLimit]
\* type.startsWith("image/")
IsImageType(type) == type \in {"image/png", "image/jpeg", "image/webp", "image/bmp"}
\* the attachment the request carries for a file
AttachmentOf(file) == [isImage |-> IsImageType(file.type)]

\* A suspended handler invocation: what its closure holds (the conversation
\* id and messages of the render it was called in, the text or the file) and
\* where it waits: "canvasWait" (the 150 ms timer), "reading" (the file
\* reader) or "fetch" (the request is out).  getterReady and graphWasOpen
\* record what the handler saw: whether the canvas getter was set when it
\* looked, and whether the graph panel was open when @graph toggled it.
Task(tid, kind, pc, chatId, closureMessages, msg, file, canvasDataUrl, getterReady, graphWasOpen) ==
    [tid |-> tid, kind |-> kind, pc |-> pc, chatId |-> chatId,
     closureMessages |-> closureMessages, msg |-> msg, file |-> file,
     canvasDataUrl |-> canvasDataUrl, getterReady |-> getterReady,
     graphWasOpen |-> graphWasOpen]

\* ids of the two messages a submission creates
UserMsgId(tid) == 2 * tid - 1
ReplyMsgId(tid) == 2 * tid

Inputs == { << " " >>, << "hi", " " >>, << "@Canvas" >>, << "@graph" >> }

\* a PDF within the size limit, and an image of a type outside JPEG/PNG/WEBP
\* that is also over the limit
Files == { File("application/pdf", FALSE), File("image/bmp", TRUE) }

UITexts == { Text(TRUE, << >>),
             Text(TRUE, << GraphFence(<< "y=x^2" >>) >>) }

\* what a fetch can come back with: the network fails, or the route answers
\* for a reply of the model or for a failure of the model call
Outcomes == { [net |-> FALSE, ok |-> FALSE, text |-> EmptyText],
              [net |-> TRUE,  ok |-> FALSE, text |-> EmptyText] }
            \cup { [net |-> TRUE, ok |-> TRUE, text |-> t] : t \in UITexts }

\* the same for the fetch of a file submission, the reply being plain prose
FileOutcomes == { o \in Outcomes : o.text.fences = << >> }

----------------------------------------------------------------------------
(* page.tsx *)

handleToggleCanvas(open) == ~open
handleToggleGraph(open) == ~open

\* updateDesmosExpressions(expressions): the new list and the new isGraphOpen
updateDesmosExpressions(expressions, open) ==
    IF IsNull(expressions)
    THEN [list |-> Null, open |-> open]
    ELSE [list |-> Some(Val(expressions)),
          open |-> IF Len(Val(expressions)) > 0 THEN TRUE ELSE open]

\* getCanvasDataUrlFuncRef.current(): a PNG data URL while the stage is mounted
internalGetDataUrl(stageMounted) ==
    IF stageMounted THEN "data:image/png;base64,AAAA" ELSE ""

----------------------------------------------------------------------------
(* GraphPanel.tsx.  The calculator is Null or Some(plot); a plot is the    *)
(* sequence of the expressions it shows, the one with id expr-k at k + 1.  *)

\* calculator.setBlank()
setBlank(plot) == << >>

\* calculator.setExpressions(list): an expression replaces the one with its
\* id, the others stay
setExpressions(plot, list) ==
    [k \in 1..(IF Len(plot) > Len(list) THEN Len(plot) ELSE Len(list)) |->
        IF k <= Len(list) THEN list[k] ELSE plot[k]]

setDesmosExpressions(calc, expressions) ==
    IF IsNull(calc) THEN calc
    ELSE Some(setExpressions(setBlank(Val(calc)), expressions))

\* the effects of lines 70-76 and 91-105 after a render with the props
\* isOpen and desmosExpressions
GraphPanelEffects(calc, isOpen, desmosExpressions) ==
    LET updated == IF ~IsNull(calc) /\ isOpen /\ ~IsNull(desmosExpressions)
                   THEN setDesmosExpressions(calc, Val(desmosExpressions))
                   ELSE calc
    IN  IF ~isOpen /\ ~IsNull(updated) THEN Null ELSE updated

\* the effect of lines 29-68 after a render: it runs when isOpen or
\* desmosExpressions changed; its cleanup clears the interval of the render
\* before and it sets a new one when the panel is open
PollAfterRender(pending, wasOpen, isOpen, listChanged) ==
    IF wasOpen # isOpen \/ listChanged THEN isOpen ELSE pending

\* the callback of the interval, lines 35-61, once Desmos is there.  The
\* container div is rendered only when isDesmosLoading is false (121-137),
\* and setIsDesmosLoading(false) is rendered after the callback has ended,
\* so a callback that finds isDesmosLoading true finds no container
PollCallback(calc, loading, desmosExpressions) ==
    IF ~loading /\ IsNull(calc)
    THEN IF ~IsNull(desmosExpressions) /\ Len(Val(desmosExpressions)) > 0
         THEN setDesmosExpressions(Some(<< >>), Val(desmosExpressions))
         ELSE Some(<< >>)
    ELSE calc

\* what a render of GraphPanel with a new isOpen leaves of the interval and
\* of the record that the panel was open and closed
GraphPanelRendered(isOpen, listChanged) ==
    /\ pollPending' = PollAfterRender(pollPending, isGraphOpen, isOpen, listChanged)
    /\ graphClosedOnce' = (graphClosedOnce \/ (isGraphOpen /\ ~isOpen))
    /\ UNCHANGED isDesmosLoading

----------------------------------------------------------------------------
(* The state after construction: one empty conversation is shown, nothing  *)
(* is typed or picked, both panels are closed, the canvas panel (a dynamic *)
(* import) has not mounted yet, and no request has been made.              *)

NoCall == [variant |-> "none"]

Init ==
    /\ currentChatId = 1
    /\ chatHistory = [c \in {1} |-> << >>]
    /\ input = << >>
    /\ isLoading = FALSE
    /\ selectedFile = Null
    /\ isCanvasOpen = FALSE
    /\ isGraphOpen = FALSE
    /\ currentDesmosExpressions = Null
    /\ canvasGetter = FALSE
    /\ tasks = { }
    /\ nextId = 1
    /\ nextChatId = 2
    /\ deployed \in {"route", "validated"}
    /\ call = NoCall
    /\ calculator = Null
    /\ mcqAnswers = << >>
    /\ mcqResults = << >>
    /\ db = << >>
    /\ canvasLines = << >>
    /\ canvasHistory = << >>
    /\ isDesmosLoading = TRUE
    /\ pollPending = FALSE
    /\ graphClosedOnce = FALSE
    /\ resolvedAway = { }
    /\ strokeCount = 0

----------------------------------------------------------------------------
(* ChatInterface.tsx: the handlers. *)

\* the paperclip button is disabled while loading
handleFileChange(file) ==
    /\ ~isLoading
    /\ selectedFile' = Some(file)
    /\ UNCHANGED << currentChatId, chatHistory, input, isLoading,
                    isCanvasOpen, isGraphOpen, currentDesmosExpressions,
                    canvasGetter, tasks, nextId, nextChatId, deployed, call,
                    calculator, mcqAnswers, mcqResults, db,
                    canvasLines, canvasHistory,
                    isDesmosLoading, pollPending, graphClosedOnce, resolvedAway,
                    strokeCount >>

\* the X button beside the file name
clearSelectedFile ==
    /\ selectedFile # Null
    /\ selectedFile' = Null
    /\ UNCHANGED << currentChatId, chatHistory, input, isLoading,
                    isCanvasOpen, isGraphOpen, currentDesmosExpressions,
                    canvasGetter, tasks, nextId, nextChatId, deployed, call,
                    calculator, mcqAnswers, mcqResults, db,
                    canvasLines, canvasHistory,
                    isDesmosLoading, pollPending, graphClosedOnce, resolvedAway,
                    strokeCount >>

\* newUserMessage of handleSubmit (lines 274-279) and of handleFileUpload
\* (lines 159-165)
TextUserMessage(tid, msg) ==
    Message(UserMsgId(tid), "user", UserContent(msg), Null, Null, Null)
FileUserMessage(tid, file) ==
    Message(UserMsgId(tid), "user", FixedContent("analyze"), Null, Null, Some(file))

\* the body of the fetch a task in "fetch" has issued: lines 298-302 for a
\* text, lines 199-209 for a file
RequestOf(t) ==
    IF t.kind = "text"
    THEN Request(apiHistoryOfSubmit(t.closureMessages, TextUserMessage(t.tid, t.msg)),
                 t.msg, t.canvasDataUrl, << >>)
    ELSE Request(ApiHistory(updatedMessagesOfUpload(t.closureMessages,
                                FileUserMessage(t.tid, Val(t.file)))),
                 << "summarize" >>, "", << AttachmentOf(Val(t.file)) >>)

\* handleSubmit from line 269 on: graph toggle, user message, flags, request
SendText(tid, chatId, closureMessages, msg, canvasDataUrl, getterReady, graphWasOpen, otherTasks) ==
    LET newUserMessage == TextUserMessage(tid, msg)
    IN  /\ isGraphOpen' = IF Includes(msg, "@graph")
                          THEN handleToggleGraph(isGraphOpen) ELSE isGraphOpen
        /\ chatHistory' = Put(chatHistory, chatId,
                              Append(Get(chatHistory, chatId), newUserMessage))
        /\ input' = << >>
        /\ isLoading' = TRUE
        /\ currentDesmosExpressions' =
               updateDesmosExpressions(Null, isGraphOpen).list
        /\ calculator' = GraphPanelEffects(calculator, isGraphOpen',
                                           currentDesmosExpressions')
        /\ GraphPanelRendered(isGraphOpen', ~IsNull(currentDesmosExpressions))
        /\ tasks' = otherTasks \cup
               { Task(tid, "text", "fetch", chatId, closureMessages, msg, Null,
                      canvasDataUrl, getterReady, graphWasOpen) }

\* handleSubmit with a file picked: handleFileUpload starts the reader
handleSubmit_file ==
    /\ ~isLoading
    /\ selectedFile # Null
    /\ nextId <= MaxSubmits
    /\ tasks' = tasks \cup
           { Task(nextId, "file", "reading", currentChatId,
                  Get(chatHistory, currentChatId), << >>, selectedFile, "",
                  FALSE, FALSE) }
    /\ nextId' = nextId + 1
    /\ UNCHANGED << currentChatId, chatHistory, input, isLoading, selectedFile,
                    isCanvasOpen, isGraphOpen, currentDesmosExpressions,
                    canvasGetter, nextChatId, deployed, call,
                    calculator, mcqAnswers, mcqResults, db,
                    canvasLines, canvasHistory,
                    isDesmosLoading, pollPending, graphClosedOnce, resolvedAway,
                    strokeCount >>

\* a variant of handleSubmit_text without the test of isLoading
handleSubmit_text_noLoadingCheck(text) ==
    LET userMessageContent == Trim(text)
    IN  /\ selectedFile = Null
        /\ userMessageContent # << >>
        /\ nextId <= MaxSubmits
        /\ nextId' = nextId + 1
        /\ IF Includes(userMessageContent, "@canvas")
           THEN /\ isCanvasOpen' = handleToggleCanvas(isCanvasOpen)
                /\ input' = text
                /\ tasks' = tasks \cup
                       { Task(nextId, "text", "canvasWait", currentChatId,
                              Get(chatHistory, currentChatId),
                              userMessageContent, Null, "", FALSE, FALSE) }
                /\ UNCHANGED << chatHistory, isLoading, isGraphOpen,
                                currentDesmosExpressions, calculator,
                                isDesmosLoading, pollPending, graphClosedOnce >>
           ELSE /\ SendText(nextId, currentChatId,
                            Get(chatHistory, currentChatId),
                            userMessageContent, "", FALSE,
                            Includes(userMessageContent, "@graph") /\ isGraphOpen,
                            tasks)
                /\ UNCHANGED isCanvasOpen
        /\ UNCHANGED << currentChatId, selectedFile, canvasGetter, nextChatId,
                        deployed, call, mcqAnswers, mcqResults, db,
                        canvasLines, canvasHistory, resolvedAway,
                    strokeCount >>

\* The user types `text` (onChange, line 701; the box is disabled while
\* loading) and submits it.  handleSubmit with text: up to the 150 ms wait
\* when @canvas is in the text, up to the fetch otherwise
handleSubmit_text(text) ==
    LET userMessageContent == Trim(text)
    IN  /\ selectedFile = Null
        /\ userMessageContent # << >>
        /\ ~isLoading
        /\ nextId <= MaxSubmits
        /\ nextId' = nextId + 1
        /\ IF Includes(userMessageContent, "@canvas")
           THEN /\ isCanvasOpen' = handleToggleCanvas(isCanvasOpen)
                /\ input' = text
                /\ tasks' = tasks \cup
                       { Task(nextId, "text", "canvasWait", currentChatId,
                              Get(chatHistory, currentChatId),
                              userMessageContent, Null, "", FALSE, FALSE) }
                /\ UNCHANGED << chatHistory, isLoading, isGraphOpen,
                                currentDesmosExpressions, calculator,
                                isDesmosLoading, pollPending, graphClosedOnce >>
           ELSE /\ SendText(nextId, currentChatId,
                            Get(chatHistory, currentChatId),
                            userMessageContent, "", FALSE,
                            Includes(userMessageContent, "@graph") /\ isGraphOpen,
                            tasks)
                /\ UNCHANGED isCanvasOpen
        /\ UNCHANGED << currentChatId, selectedFile, canvasGetter, nextChatId,
                        deployed, call, mcqAnswers, mcqResults, db,
                        canvasLines, canvasHistory, resolvedAway,
                    strokeCount >>

\* handleSubmit resumes after the wait: lines 264-303
handleSubmit_afterWait(t) ==
    /\ t.pc = "canvasWait"
    /\ SendText(t.tid, t.chatId, t.closureMessages, t.msg,
                IF canvasGetter THEN internalGetDataUrl(isCanvasOpen) ELSE "",
                canvasGetter, Includes(t.msg, "@graph") /\ isGraphOpen,
                tasks \ {t})
    /\ UNCHANGED << currentChatId, selectedFile, isCanvasOpen, canvasGetter,
                    nextId, nextChatId, deployed, call, mcqAnswers, mcqResults,
                    db, canvasLines, canvasHistory, resolvedAway,
                    strokeCount >>

\* reader.onload of handleFileUpload: lines 143-210
handleFileUpload_onload(t) ==
    /\ t.pc = "reading"
    /\ LET updatedMessages ==
               updatedMessagesOfUpload(t.closureMessages, FileUserMessage(t.tid, Val(t.file)))
       IN  /\ chatHistory' = Put(chatHistory, t.chatId, updatedMessages)
           /\ tasks' = (tasks \ {t}) \cup { [t EXCEPT !.pc = "fetch"] }
    /\ selectedFile' = Null
    /\ isLoading' = TRUE
    /\ UNCHANGED << currentChatId, input, isCanvasOpen, isGraphOpen,
                    currentDesmosExpressions, canvasGetter, nextId,
                    nextChatId, deployed, call,
                    calculator, mcqAnswers, mcqResults, db,
                    canvasLines, canvasHistory,
                    isDesmosLoading, pollPending, graphClosedOnce, resolvedAway,
                    strokeCount >>

\* the reader fails: no onerror handler is installed, the upload just ends
handleFileUpload_readError(t) ==
    /\ t.pc = "reading"
    /\ tasks' = tasks \ {t}
    /\ UNCHANGED << currentChatId, chatHistory, input, isLoading, selectedFile,
                    isCanvasOpen, isGraphOpen, currentDesmosExpressions,
                    canvasGetter, nextId, nextChatId, deployed, call,
                    calculator, mcqAnswers, mcqResults, db,
                    canvasLines, canvasHistory,
                    isDesmosLoading, pollPending, graphClosedOnce, resolvedAway,
                    strokeCount >>

\* the record of the calls that resolved while the conversation shown was
\* not the one of their closure, after the call of task t has resolved
Resolved(t) ==
    IF t.chatId # currentChatId
    THEN resolvedAway \cup { [tid |-> t.tid, chatId |-> t.chatId,
                              shown |-> currentChatId] }
    ELSE resolvedAway

\* what the fetch of task t resolves to under outcome o
ResponseOf(t, o) == Route(deployed, RequestOf(t), [ok |-> o.ok, text |-> o.text])
Succeeds(t, o) == o.net /\ ResponseOf(t, o).status = 200

ReplyContent(text, fallback) ==
    IF IsEmptyText(text) THEN FixedContent(fallback)
    ELSE Content("reply", << >>, text)

\* a variant of AppendTo that writes to the conversation shown
AppendTo_toShown(h, chatId, message) ==
    Put(h, currentChatId, Append(Get(h, currentChatId), message))

\* (prev) => ({ ...prev, [currentChatId]: [...(prev[currentChatId] || []), m] })
\* with the currentChatId of the handler's closure
AppendTo(h, chatId, message) == Put(h, chatId, Append(Get(h, chatId), message))

\* handleSubmit, lines 307-325 and 355-357: the reply of a text submission
handleSubmit_reply(t, o) ==
    /\ t.pc = "fetch" /\ t.kind = "text"
    /\ Succeeds(t, o)
    /\ LET data == ResponseOf(t, o)
           aiResponseMessage ==
               Message(ReplyMsgId(t.tid), "model",
                       ReplyContent(Val(data.reply), "fallback"),
                       data.mcqData, data.desmosExpressions, Null)
           u == updateDesmosExpressions(data.desmosExpressions, isGraphOpen)
       IN  /\ chatHistory' = AppendTo(chatHistory, t.chatId, aiResponseMessage)
           /\ IF ~IsNull(data.desmosExpressions)
              THEN /\ currentDesmosExpressions' = u.list
                   /\ isGraphOpen' = handleToggleGraph(u.open)
              ELSE UNCHANGED << currentDesmosExpressions, isGraphOpen >>
    /\ calculator' = GraphPanelEffects(calculator, isGraphOpen',
                                       currentDesmosExpressions')
    /\ GraphPanelRendered(isGraphOpen', ~IsNull(ResponseOf(t, o).desmosExpressions))
    /\ isLoading' = FALSE
    /\ tasks' = tasks \ {t}
    /\ resolvedAway' = Resolved(t)
    /\ UNCHANGED << currentChatId, input, selectedFile, isCanvasOpen,
                    canvasGetter, nextId, nextChatId, deployed, call,
                    mcqAnswers, mcqResults, db, canvasLines, canvasHistory,
                    strokeCount >>

\* handleSubmit, lines 341-357: the fetch rejects or the response is not ok
handleSubmit_error(t, o) ==
    /\ t.pc = "fetch" /\ t.kind = "text"
    /\ ~Succeeds(t, o)
    /\ chatHistory' = AppendTo(chatHistory, t.chatId,
           Message(ReplyMsgId(t.tid), "model", FixedContent("error"),
                   Null, Null, Null))
    /\ isLoading' = FALSE
    /\ tasks' = tasks \ {t}
    /\ resolvedAway' = Resolved(t)
    /\ UNCHANGED << currentChatId, input, selectedFile, isCanvasOpen,
                    isGraphOpen, currentDesmosExpressions, canvasGetter,
                    nextId, nextChatId, deployed, call,
                    calculator, mcqAnswers, mcqResults, db,
                    canvasLines, canvasHistory,
                    isDesmosLoading, pollPending, graphClosedOnce,
                    strokeCount >>

\* handleFileUpload, lines 217-229: the reply of a file submission
handleFileUpload_reply(t, o) ==
    /\ t.pc = "fetch" /\ t.kind = "file"
    /\ Succeeds(t, o)
    /\ LET data == ResponseOf(t, o)
           aiResponseMessage ==
               Message(ReplyMsgId(t.tid), "model",
                       ReplyContent(Val(data.reply), "summary"),
                       data.mcqData, Null, Null)
       IN  chatHistory' = AppendTo(chatHistory, t.chatId, aiResponseMessage)
    /\ tasks' = tasks \ {t}
    /\ resolvedAway' = Resolved(t)
    /\ UNCHANGED << currentChatId, input, isLoading, selectedFile,
                    isCanvasOpen, isGraphOpen, currentDesmosExpressions,
                    canvasGetter, nextId, nextChatId, deployed, call,
                    calculator, mcqAnswers, mcqResults, db,
                    canvasLines, canvasHistory,
                    isDesmosLoading, pollPending, graphClosedOnce,
                    strokeCount >>

\* handleFileUpload, lines 230-236: the catch block
handleFileUpload_error(t, o) ==
    /\ t.pc = "fetch" /\ t.kind = "file"
    /\ ~Succeeds(t, o)
    /\ isLoading' = FALSE
    /\ tasks' = tasks \ {t}
    /\ resolvedAway' = Resolved(t)
    /\ UNCHANGED << currentChatId, chatHistory, input, selectedFile,
                    isCanvasOpen, isGraphOpen, currentDesmosExpressions,
                    canvasGetter, nextId, nextChatId, deployed, call,
                    calculator, mcqAnswers, mcqResults, db,
                    canvasLines, canvasHistory,
                    isDesmosLoading, pollPending, graphClosedOnce,
                    strokeCount >>

handleNewChat ==
    /\ nextChatId <= MaxChats
    /\ currentChatId' = nextChatId
    /\ nextChatId' = nextChatId + 1
    /\ chatHistory' = InitEffect(chatHistory, nextChatId)
    /\ UNCHANGED << input, isLoading, selectedFile, isCanvasOpen, isGraphOpen,
                    currentDesmosExpressions, canvasGetter, tasks, nextId,
                    deployed, call,
                    calculator, mcqAnswers, mcqResults, db,
                    canvasLines, canvasHistory,
                    isDesmosLoading, pollPending, graphClosedOnce, resolvedAway,
                    strokeCount >>

handleSelectChat(id) ==
    /\ id # currentChatId
    /\ currentChatId' = id
    /\ chatHistory' = InitEffect(chatHistory, id)
    /\ UNCHANGED << input, isLoading, selectedFile, isCanvasOpen, isGraphOpen,
                    currentDesmosExpressions, canvasGetter, tasks, nextId,
                    nextChatId, deployed, call,
                    calculator, mcqAnswers, mcqResults, db,
                    canvasLines, canvasHistory,
                    isDesmosLoading, pollPending, graphClosedOnce, resolvedAway,
                    strokeCount >>

handleDeleteChat(id) ==
    IF Cardinality(DOMAIN chatHistory) <= 1
    THEN /\ nextChatId <= MaxChats
         /\ currentChatId' = nextChatId
         /\ nextChatId' = nextChatId + 1
         /\ chatHistory' = InitEffect(Remove(chatHistory, id), nextChatId)
         /\ UNCHANGED << input, isLoading, selectedFile, isCanvasOpen,
                         isGraphOpen, currentDesmosExpressions, canvasGetter,
                         tasks, nextId, deployed, call,
                    calculator, mcqAnswers, mcqResults, db,
                    canvasLines, canvasHistory,
                    isDesmosLoading, pollPending, graphClosedOnce, resolvedAway,
                    strokeCount >>
    ELSE /\ chatHistory' = InitEffect(Remove(chatHistory, id), currentChatId)
         /\ UNCHANGED << currentChatId, input, isLoading, selectedFile,
                         isCanvasOpen, isGraphOpen, currentDesmosExpressions,
                         canvasGetter, tasks, nextId, nextChatId, deployed,
                         call, calculator, mcqAnswers, mcqResults, db,
                    canvasLines, canvasHistory,
                    isDesmosLoading, pollPending, graphClosedOnce, resolvedAway,
                    strokeCount >>

----------------------------------------------------------------------------
(* page.tsx and CanvasPanel.tsx: the header buttons and the panel's mount. *)

toggleCanvasButton ==
    /\ isCanvasOpen' = handleToggleCanvas(isCanvasOpen)
    /\ UNCHANGED << currentChatId, chatHistory, input, isLoading, selectedFile,
                    isGraphOpen, currentDesmosExpressions, canvasGetter, tasks,
                    nextId, nextChatId, deployed, call,
                    calculator, mcqAnswers, mcqResults, db,
                    canvasLines, canvasHistory,
                    isDesmosLoading, pollPending, graphClosedOnce, resolvedAway,
                    strokeCount >>

toggleGraphButton ==
    /\ isGraphOpen' = handleToggleGraph(isGraphOpen)
    /\ calculator' = GraphPanelEffects(calculator, isGraphOpen',
                                       currentDesmosExpressions)
    /\ GraphPanelRendered(isGraphOpen', FALSE)
    /\ UNCHANGED << currentChatId, chatHistory, input, isLoading, selectedFile,
                    isCanvasOpen, currentDesmosExpressions, canvasGetter, tasks,
                    nextId, nextChatId, deployed, call, mcqAnswers, mcqResults,
                    db, canvasLines, canvasHistory, resolvedAway,
                    strokeCount >>

\* the Close button of the graph sheet and the sheet's own ways of closing:
\* onOpenChange(false)
closeGraphPanel ==
    /\ isGraphOpen
    /\ isGraphOpen' = FALSE
    /\ calculator' = GraphPanelEffects(calculator, isGraphOpen',
                                       currentDesmosExpressions)
    /\ GraphPanelRendered(isGraphOpen', FALSE)
    /\ UNCHANGED << currentChatId, chatHistory, input, isLoading, selectedFile,
                    isCanvasOpen, currentDesmosExpressions, canvasGetter, tasks,
                    nextId, nextChatId, deployed, call, mcqAnswers, mcqResults,
                    db, canvasLines, canvasHistory, resolvedAway,
                    strokeCount >>

\* the getter effect of CanvasPanel runs once the dynamic import has loaded
exposeCanvasGetter ==
    /\ ~canvasGetter
    /\ canvasGetter' = TRUE
    /\ UNCHANGED << currentChatId, chatHistory, input, isLoading, selectedFile,
                    isCanvasOpen, isGraphOpen, currentDesmosExpressions, tasks,
                    nextId, nextChatId, deployed, call,
                    calculator, mcqAnswers, mcqResults, db,
                    canvasLines, canvasHistory,
                    isDesmosLoading, pollPending, graphClosedOnce, resolvedAway,
                    strokeCount >>

\* `${messageId}-${mcqIndex}`
McqId(messageId, mcqIndex) == << messageId, mcqIndex >>

\* messages.find((m) => m.id === messageId)?.mcqs?.[mcqIndex], or Null
FindMcq(messages, messageId, mcqIndex) ==
    LET found == { k \in 1..Len(messages) : messages[k].id = messageId }
    IN  IF found = { } THEN Null
        ELSE LET message == messages[CHOOSE k \in found : \A j \in found : k <= j]
             IN  IF IsNull(message.mcqs) \/ mcqIndex >= Len(Val(message.mcqs))
                 THEN Null
                 ELSE Some(Val(message.mcqs)[mcqIndex + 1])

\* a variant of IsCorrectOption that compares with the first option
IsCorrectOption_first(selectedOption, mcq) ==
    mcq.options # << >> /\ selectedOption = mcq.options[1]

\* const isCorrect = selectedOption === mcq.correctAnswer
IsCorrectOption(selectedOption, mcq) == selectedOption = mcq.correctAnswer

\* handleMcqSelection, lines 360-388; the radio group of a question offers
\* the question's options
handleMcqSelection(messageId, mcqIndex, selectedOption) ==
    LET found == FindMcq(Get(chatHistory, currentChatId), messageId, mcqIndex)
    IN  /\ ~IsNull(found)
        /\ \E n \in 1..Len(Val(found).options) : Val(found).options[n] = selectedOption
        /\ mcqAnswers' = Put(mcqAnswers, McqId(messageId, mcqIndex), selectedOption)
        /\ mcqResults' = Put(mcqResults, McqId(messageId, mcqIndex),
                             IsCorrectOption(selectedOption, Val(found)))
        /\ UNCHANGED << currentChatId, chatHistory, input, isLoading,
                        selectedFile, isCanvasOpen, isGraphOpen,
                        currentDesmosExpressions, canvasGetter, tasks, nextId,
                        nextChatId, deployed, call, calculator, db,
                    canvasLines, canvasHistory,
                    isDesmosLoading, pollPending, graphClosedOnce, resolvedAway,
                    strokeCount >>

\* GraphPanel, lines 34-62: the interval fires and finds the Desmos script
\* loaded; it clears itself, ends the loading state and, when the container
\* is there and no calculator is, creates one and plots the list it was
\* given
desmosPoll ==
    /\ pollPending
    /\ pollPending' = FALSE
    /\ isDesmosLoading' = FALSE
    /\ calculator' = PollCallback(calculator, isDesmosLoading,
                                  currentDesmosExpressions)
    /\ UNCHANGED << currentChatId, chatHistory, input, isLoading, selectedFile,
                    isCanvasOpen, isGraphOpen, currentDesmosExpressions,
                    canvasGetter, tasks, nextId, nextChatId, deployed, call,
                    mcqAnswers, mcqResults, db, canvasLines, canvasHistory,
                    graphClosedOnce, resolvedAway,
                    strokeCount >>

Next ==
    \/ \E file \in Files : handleFileChange(file)
    \/ clearSelectedFile
    \/ handleSubmit_file
    \/ \E text \in Inputs : handleSubmit_text(text)
    \/ \E t \in tasks : handleSubmit_afterWait(t)
    \/ \E t \in tasks : handleFileUpload_onload(t)
    \/ \E t \in tasks : handleFileUpload_readError(t)
    \/ \E t \in tasks, o \in Outcomes : handleSubmit_reply(t, o)
    \/ \E t \in tasks, o \in Outcomes : handleSubmit_error(t, o)
    \/ \E t \in tasks, o \in FileOutcomes : handleFileUpload_reply(t, o)
    \/ \E t \in tasks, o \in FileOutcomes : handleFileUpload_error(t, o)
    \/ exposeCanvasGetter

Spec == Init /\ [][Next]_vars

----------------------------------------------------------------------------
(* Direct requests to the chat route: any client can POST any body, and    *)
(* the model can answer any text.  `call` holds the last request, the      *)
(* model's outcome and the route's response.                               *)

QuizEmptyExpl == Mcq("Q4", <<"A", "B">>, "A", TRUE, "")

RouteFences ==
    { MalformedFence, PlainFence, NotArrayFence,
      GraphFence(<< >>), GraphFence(<< "y=x^2" >>),
      GraphFence(<< "", "y=x^2", " " >>), GraphFence(<< "y=x^2", "y=2x" >>),
      QuizFence(<< QuizGood, QuizNoExpl >>), QuizFence(<< QuizEmptyExpl >>),
      QuizFence(<< QuizWrong >>),
      Fence(TRUE, "array", << "y=2x" >>, "array", << QuizGood >>) }

RouteTexts ==
    { EmptyText } \cup { Text(TRUE, fs) : fs \in SeqsUpTo(RouteFences, MaxFences) }

RouteOutcomes ==
    { [ok |-> FALSE, text |-> EmptyText] }
    \cup { [ok |-> TRUE, text |-> t] : t \in RouteTexts }

RouteRequests ==
    { Request(h, m, c, << >>) :
        h \in SeqsUpTo({ [role |-> r, content |-> UserContent(<< "hi" >>)] : r \in Roles },
                       MaxHistory),
        m \in { << >>, << "hi" >>, << "@graph" >> },
        c \in { "", "data:image/png;base64,AAAA" } }

\* const { history, message, canvasDataUrl } = await req.json(), and the rest.
\* The handler keeps nothing between requests, so one request per behaviour
\* covers every request.
directRequest_route ==
    /\ call = NoCall
    /\ \E req \in RouteRequests, outcome \in RouteOutcomes :
           call' = [variant |-> "route", req |-> req, outcome |-> outcome,
                    resp |-> POST_route(req, outcome)]
    /\ UNCHANGED uiVars

directRequest_validated ==
    /\ call = NoCall
    /\ \E req \in RouteRequests, outcome \in RouteOutcomes :
           call' = [variant |-> "validated", req |-> req, outcome |-> outcome,
                    resp |-> POST_validated(req, outcome)]
    /\ UNCHANGED uiVars

RouteInit == Init /\ deployed = "route"

RouteNext ==
    \/ directRequest_route
    \/ directRequest_validated

RouteSpec == RouteInit /\ [][RouteNext]_vars

----------------------------------------------------------------------------
(* Requests that exercise the prompt composition and the canvas image of   *)
(* the global-scan route and of the one-shot route.                        *)

PromptMessages ==
    { << >>, << "hi" >>, << "@canvas" >>, << "@Canvas" >>, << "Plot" >>,
      << "@Canvas", "plot" >>, << "@graph" >> }

\* no URL, a PNG data URL, a GIF data URL, a PNG data URL without data
CanvasUrls ==
    { "", "data:image/png;base64,AAAA", "data:image/gif;base64,AAAA",
      "data:image/png;base64," }

AttachmentDatas ==
    { Null, Some(AttachmentData(TRUE, TRUE)), Some(AttachmentData(FALSE, TRUE)),
      Some(AttachmentData(FALSE, FALSE)) }

PromptHistories ==
    { << >>,
      << [role |-> "user", content |-> UserContent(<< "hi" >>)],
         [role |-> "model", content |-> UserContent(<< "hi" >>)] >> }

PromptOutcomes ==
    { [ok |-> FALSE, text |-> EmptyText],
      [ok |-> TRUE, text |-> Text(TRUE, << >>)],
      [ok |-> TRUE, text |-> Text(TRUE, << GraphFence(<< "y=x^2" >>) >>)] }

promptRequest_route ==
    /\ call = NoCall
    /\ \E h \in PromptHistories, m \in PromptMessages, c \in CanvasUrls,
          outcome \in PromptOutcomes :
           LET req == Request(h, m, c, << >>)
           IN  call' = [variant |-> "route", req |-> req, outcome |-> outcome,
                        resp |-> POST_route(req, outcome)]
    /\ UNCHANGED uiVars

promptRequest_oneshot ==
    /\ call = NoCall
    /\ \E m \in PromptMessages, c \in CanvasUrls, a \in AttachmentDatas,
          outcome \in PromptOutcomes :
           LET req == OneShotRequest(m, c, a)
           IN  call' = [variant |-> "oneshot", req |-> req, outcome |-> outcome,
                        resp |-> POST_oneshot(req, outcome)]
    /\ UNCHANGED uiVars

PromptNext ==
    \/ promptRequest_route
    \/ promptRequest_oneshot

PromptSpec == RouteInit /\ [][PromptNext]_vars

----------------------------------------------------------------------------
(* The persisted-history variant of the chat route: its DELETE handler and *)
(* the chat store behind it.  The store's queries (getChatById, saveChat,  *)
(* deleteChatById of db/queries) and auth() are not among the sources: the *)
(* store is a map from chat id to the owner's user id, a query reads or    *)
(* changes one entry, and a query can fail (reject), which leaves the      *)
(* store as it was.                                                        *)

ChatIds == {"c1", "c2"}
Users == {"ann", "bob"}

\* auth(): no session, a session without user, a session of a user
Session(user) == Some([user |-> user])
Sessions == { Null, Session(Null) } \cup { Session(Some(u)) : u \in Users }

\* searchParams.get("id"): absent, empty, the id of a possible chat, or
\* another id
RequestIds == { Null, Some(""), Some("c9") } \cup { Some(c) : c \in ChatIds }

\* which query of the request rejects, if any
Faults == {"none", "getChatById", "deleteChatById"}

\* the chat with the id, or Null (undefined) when there is none
getChatById(store, id) ==
    IF id \in DOMAIN store THEN Some([id |-> id, userId |-> store[id]]) ELSE Null

deleteChatById(store, id) == Remove(store, id)

\* a new chat is stored for the user; the messages of a stored chat are
\* replaced, its owner stays
saveChat(store, id, userId) ==
    IF id \in DOMAIN store THEN store ELSE Put(store, id, userId)

DeleteResult(status, store) == [status |-> status, store |-> store]

\* a variant of DELETE without the comparison of chat.userId
DELETE_noOwnerTest(store, id, session, fault) ==
    IF IsNull(id) \/ Val(id) = ""
    THEN DeleteResult(404, store)
    ELSE IF IsNull(session) \/ IsNull(Val(session).user)
    THEN DeleteResult(401, store)
    ELSE IF fault = "getChatById"
    THEN DeleteResult(500, store)
    ELSE LET chat == getChatById(store, Val(id))
         IN  IF IsNull(chat)
             THEN DeleteResult(500, store)
             ELSE IF fault = "deleteChatById"
             THEN DeleteResult(500, store)
             ELSE DeleteResult(200, deleteChatById(store, Val(id)))

\* DELETE(request): the status of the response and the store afterwards.
\* `chat.userId` of an undefined chat throws, and the catch answers 500
DELETE(store, id, session, fault) ==
    IF IsNull(id) \/ Val(id) = ""
    THEN DeleteResult(404, store)
    ELSE IF IsNull(session) \/ IsNull(Val(session).user)
    THEN DeleteResult(401, store)
    ELSE IF fault = "getChatById"
    THEN DeleteResult(500, store)
    ELSE LET chat == getChatById(store, Val(id))
         IN  IF IsNull(chat)
             THEN DeleteResult(500, store)
             ELSE IF Val(chat).userId # Val(Val(session).user)
             THEN DeleteResult(401, store)
             ELSE IF fault = "deleteChatById"
             THEN DeleteResult(500, store)
             ELSE DeleteResult(200, deleteChatById(store, Val(id)))

\* POST of the same route, onFinish: the chat is saved for the session's user
streamFinish(id, user) ==
    /\ db' = saveChat(db, id, user)
    /\ UNCHANGED << currentChatId, chatHistory, input, isLoading, selectedFile,
                    isCanvasOpen, isGraphOpen, currentDesmosExpressions,
                    canvasGetter, tasks, nextId, nextChatId, deployed, call,
                    calculator, mcqAnswers, mcqResults, canvasLines,
                    canvasHistory,
                    isDesmosLoading, pollPending, graphClosedOnce, resolvedAway,
                    strokeCount >>

\* a DELETE request is answered; `call` keeps the request, the store it met
\* and the response
deleteRequest(id, session, fault) ==
    LET r == DELETE(db, id, session, fault)
    IN  /\ db' = r.store
        /\ call' = [variant |-> "delete", id |-> id, session |-> session,
                    fault |-> fault, before |-> db, status |-> r.status]
        /\ UNCHANGED << currentChatId, chatHistory, input, isLoading,
                        selectedFile, isCanvasOpen, isGraphOpen,
                        currentDesmosExpressions, canvasGetter, tasks, nextId,
                        nextChatId, deployed, calculator, mcqAnswers,
                        mcqResults, canvasLines, canvasHistory,
                    isDesmosLoading, pollPending, graphClosedOnce, resolvedAway,
                    strokeCount >>

DeleteNext ==
    \/ \E id \in ChatIds, user \in Users : streamFinish(id, user)
    \/ \E id \in RequestIds, session \in Sessions, fault \in Faults :
           deleteRequest(id, session, fault)

DeleteSpec == RouteInit /\ [][DeleteNext]_vars

----------------------------------------------------------------------------
(* The graph panel at work: text submissions whose replies carry lists of  *)
(* different lengths, the header's graph button, the calculator.           *)

PanelInputs == { << "hi" >>, << "@graph" >> }

PanelOutcomes ==
    { [net |-> TRUE, ok |-> FALSE, text |-> EmptyText],
      [net |-> TRUE, ok |-> TRUE, text |-> Text(TRUE, << >>)],
      [net |-> TRUE, ok |-> TRUE,
       text |-> Text(TRUE, << GraphFence(<< "y=x^2", "y=2x" >>) >>)],
      [net |-> TRUE, ok |-> TRUE,
       text |-> Text(TRUE, << GraphFence(<< "y=3x" >>) >>)] }

PanelNext ==
    \/ \E text \in PanelInputs : handleSubmit_text(text)
    \/ \E t \in tasks, o \in PanelOutcomes : handleSubmit_reply(t, o)
    \/ \E t \in tasks, o \in PanelOutcomes : handleSubmit_error(t, o)
    \/ toggleGraphButton
    \/ closeGraphPanel
    \/ desmosPoll

PanelSpec == Init /\ [][PanelNext]_vars

----------------------------------------------------------------------------
(* Quizzes: text submissions whose replies carry quizzes, and the user     *)
(* picking options.                                                        *)

QuizOutcomes ==
    { [net |-> TRUE, ok |-> TRUE,
       text |-> Text(TRUE, << QuizFence(<< QuizGood, QuizNoExpl >>) >>)],
      [net |-> TRUE, ok |-> TRUE,
       text |-> Text(TRUE, << QuizFence(<< QuizWrong >>) >>)] }

QuizOptions == {"A", "B", "C"}

\* the message ids and question indexes there can be
QuizMessageIds == 1..(2 * MaxSubmits)
QuizIndexes == 0..1

QuizNext ==
    \/ handleSubmit_text(<< "hi" >>)
    \/ \E t \in tasks, o \in QuizOutcomes : handleSubmit_reply(t, o)
    \/ \E m \in QuizMessageIds, i \in QuizIndexes, option \in QuizOptions :
           handleMcqSelection(m, i, option)

QuizSpec == Init /\ [][QuizNext]_vars

----------------------------------------------------------------------------
(* Several conversations: the sidebar's new, select and delete, and text   *)
(* submissions whose calls resolve whichever conversation is shown.  The   *)
(* sidebar component is not among the sources; it is taken to offer the    *)
(* stored conversations for selection and deletion.                        *)

ChatInputs == { << "hi" >>, << "@Canvas" >> }

ChatOutcomes ==
    { [net |-> TRUE, ok |-> FALSE, text |-> EmptyText],
      [net |-> TRUE, ok |-> TRUE, text |-> Text(TRUE, << >>)] }

ChatNext ==
    \/ handleNewChat
    \/ \E id \in DOMAIN chatHistory : handleSelectChat(id)
    \/ \E id \in DOMAIN chatHistory : handleDeleteChat(id)
    \/ \E text \in ChatInputs : handleSubmit_text(text)
    \/ \E t \in tasks : handleSubmit_afterWait(t)
    \/ \E t \in tasks, o \in ChatOutcomes : handleSubmit_reply(t, o)
    \/ \E t \in tasks, o \in ChatOutcomes : handleSubmit_error(t, o)

ChatSpec == Init /\ [][ChatNext]_vars

----------------------------------------------------------------------------
(* CanvasPanel.tsx: drawing, undo and clear.  A stroke is the LineData     *)
(* object created when the stroke starts; `lines` and the snapshots in     *)
(* `history` hold references to these objects, so the points that          *)
(* handleMouseMove adds to the last stroke change no list.  A stroke is    *)
(* modelled by its identity (its number since the panel was mounted) and   *)
(* the attributes it is created with.                                      *)

Tools == {"pen", "eraser"}
Colors == {"#df4b26", "#000000"}

\* newLine of handleMouseDown, lines 55-60
LineData(id, currentTool, currentColor) ==
    [id |-> id, tool |-> currentTool,
     strokeWidth |-> IF currentTool = "pen" THEN 3 ELSE 10,
     color |-> IF currentTool = "pen" THEN currentColor ELSE "#ffffff"]

\* a variant of handleMouseDown that snapshots the lines with the new stroke
handleMouseDown_snapshotAfter(currentTool, currentColor) ==
    LET newLine == LineData(strokeCount + 1, currentTool, currentColor)
    IN  /\ strokeCount < MaxStrokes
        /\ strokeCount' = strokeCount + 1
        /\ canvasLines' = Append(canvasLines, newLine)
        /\ canvasHistory' = Append(canvasHistory, Append(canvasLines, newLine))
        /\ UNCHANGED << currentChatId, chatHistory, input, isLoading,
                        selectedFile, isCanvasOpen, isGraphOpen,
                        currentDesmosExpressions, canvasGetter, tasks, nextId,
                        nextChatId, deployed, call, calculator, mcqAnswers,
                        mcqResults, db, isDesmosLoading, pollPending,
                        graphClosedOnce, resolvedAway >>

\* handleMouseDown, lines 52-64, with the tool and colour picked in the
\* toolbar: the new stroke is appended to the lines, and the lines of the
\* render, without it, are pushed on the undo stack
handleMouseDown(currentTool, currentColor) ==
    LET newLine == LineData(strokeCount + 1, currentTool, currentColor)
    IN  /\ strokeCount < MaxStrokes
        /\ strokeCount' = strokeCount + 1
        /\ canvasLines' = Append(canvasLines, newLine)
        /\ canvasHistory' = Append(canvasHistory, canvasLines)
        /\ UNCHANGED << currentChatId, chatHistory, input, isLoading,
                        selectedFile, isCanvasOpen, isGraphOpen,
                        currentDesmosExpressions, canvasGetter, tasks, nextId,
                        nextChatId, deployed, call, calculator, mcqAnswers,
                        mcqResults, db, isDesmosLoading, pollPending,
                        graphClosedOnce, resolvedAway >>

\* clearCanvas, lines 84-87
clearCanvas ==
    /\ canvasLines' = << >>
    /\ canvasHistory' = << >>
    /\ UNCHANGED << currentChatId, chatHistory, input, isLoading,
                    selectedFile, isCanvasOpen, isGraphOpen,
                    currentDesmosExpressions, canvasGetter, tasks, nextId,
                    nextChatId, deployed, call, calculator, mcqAnswers,
                    mcqResults, db, isDesmosLoading, pollPending,
                    graphClosedOnce, resolvedAway, strokeCount >>

\* undo, lines 89-95
undo ==
    /\ IF Len(canvasHistory) > 0
       THEN LET lastState == canvasHistory[Len(canvasHistory)]
            IN  /\ canvasLines' = lastState
                /\ canvasHistory' = SubSeq(canvasHistory, 1, Len(canvasHistory) - 1)
       ELSE UNCHANGED << canvasLines, canvasHistory >>
    /\ UNCHANGED << currentChatId, chatHistory, input, isLoading,
                    selectedFile, isCanvasOpen, isGraphOpen,
                    currentDesmosExpressions, canvasGetter, tasks, nextId,
                    nextChatId, deployed, call, calculator, mcqAnswers,
                    mcqResults, db, isDesmosLoading, pollPending,
                    graphClosedOnce, resolvedAway, strokeCount >>

CanvasNext ==
    \/ \E currentTool \in Tools, currentColor \in Colors :
          handleMouseDown(currentTool, currentColor)
    \/ clearCanvas
    \/ undo

CanvasSpec == Init /\ [][CanvasNext]_vars

----------------------------------------------------------------------------
(* Properties.  Shared vocabulary first.                                   *)

\* roles alternate user, model, user, ... starting with user
Alternates(roles) ==
    \A k \in 1..Len(roles) : roles[k] = (IF k % 2 = 1 THEN "user" ELSE "model")

RolesOf(msgs) == [k \in 1..Len(msgs) |-> msgs[k].role]

Last(s) == s[Len(s)]

\* the submissions whose request is out
TextFetches == { t \in tasks : t.kind = "text" /\ t.pc = "fetch" }
FileFetches == { t \in tasks : t.kind = "file" /\ t.pc = "fetch" }

\* the step in which the reply of text submission t is processed and its
\* message, carrying the expressions d, is appended
ReplyProcessed(t, d) ==
    /\ t \in TextFetches
    /\ t \notin tasks'
    /\ Len(chatHistory'[t.chatId]) > 0
    /\ Last(chatHistory'[t.chatId]).id = ReplyMsgId(t.tid)
    /\ Last(chatHistory'[t.chatId]).desmosExpressions = Some(d)

\* C1: when a message containing "@graph" was submitted with the graph panel
\* closed and its reply carries the expressions ["y=x^2"], then after the
\* reply has been processed the graph panel is open and the list handed to
\* it is exactly ["y=x^2"].
C1_GraphScenarioOpensPanel ==
    [][ \A t \in tasks :
          ( /\ Includes(t.msg, "@graph")
            /\ ~t.graphWasOpen
            /\ ReplyProcessed(t, << "y=x^2" >>) )
          => ( /\ isGraphOpen'
               /\ currentDesmosExpressions' = Some(<< "y=x^2" >>) ) ]_vars

\* C2: in every reachable state the roles of the messages stored for every
\* conversation alternate user, model, ... starting with user.
C2_StoredRolesAlternate ==
    \A id \in DOMAIN chatHistory : Alternates(RolesOf(chatHistory[id]))

\* C3: whenever handleSubmit has issued a request from a render whose stored
\* conversation was empty or alternated from user and ended with a model
\* message, the history in that request alternates user/model from user.
C3_RequestHistoryAlternates ==
    \A t \in TextFetches :
        ( /\ Alternates(RolesOf(t.closureMessages))
          /\ (t.closureMessages = << >> \/ Last(t.closureMessages).role = "model") )
        => Alternates(RolesOf(RequestOf(t).history))

\* C3 witness: a request is out whose render held a user/model exchange, so
\* the history has three turns.
C3_Witness ==
    \E t \in TextFetches :
        /\ Len(t.closureMessages) >= 2
        /\ Alternates(RolesOf(t.closureMessages))
        /\ Last(t.closureMessages).role = "model"
        /\ Len(RequestOf(t).history) = Len(t.closureMessages) + 1

\* C4: for every text submission whose request is out, whatever the model
\* answers, the history that seeds the chat session holds only the turns
\* before the new message (so the new message reaches the model once, as the
\* turn sent), and history followed by the turn sent alternates.
C4_SeededHistoryExcludesNewTurn ==
    \A t \in TextFetches, o \in Outcomes :
        LET r == ResponseOf(t, o)
        IN  (o.net /\ ~IsNull(r.seeded)) =>
              /\ Val(r.seeded) = ApiHistory(t.closureMessages)
              /\ Alternates(Append(RolesOf(Val(r.seeded)), "user"))

\* positions of a request history (from 0) whose role is not user when the
\* position is even, model when it is odd
BadPositions(history) ==
    { i \in 0..(Len(history) - 1) :
        history[i + 1].role # (IF i % 2 = 0 THEN "user" ELSE "model") }

SmallestOf(S) == CHOOSE x \in S : \A y \in S : x <= y

\* what the claim about history validation says of the last request made to
\* the validating route
ValidationOutcome ==
    LET bad == BadPositions(call.req.history)
    IN  IF bad # { }
        THEN /\ call.resp.status # 200
             /\ call.resp.details.kind = "InvalidSequence"
             /\ call.resp.details.position = SmallestOf(bad)
             /\ IsNull(call.resp.seeded)
             /\ IsNull(call.resp.sent)
        ELSE call.resp.details.kind # "InvalidSequence"

\* C5: for every request to the validating route that carries a non-empty
\* message: if its history has a position whose role is not the expected
\* one, the route fails with an error naming the smallest such position, no
\* chat session is started and nothing is sent to the model; if its history
\* has no such position, validation passes (no such error is raised).
C5_ValidationNamesSmallestPosition ==
    (call.variant = "validated" /\ call.req.message # << >>) => ValidationOutcome

\* C5 as first stated, for every request whatever its message.
C5_ValidationOfEveryRequest ==
    call.variant = "validated" => ValidationOutcome

\* C5 witness: a request with a message whose history is wrong at two
\* positions, the first of them not position 0, has been answered.
C5_Witness ==
    /\ call.variant = "validated"
    /\ call.req.message # << >>
    /\ Cardinality(BadPositions(call.req.history)) >= 2
    /\ SmallestOf(BadPositions(call.req.history)) >= 1
    /\ call.resp.details.position = SmallestOf(BadPositions(call.req.history))

\* C6: no step removes, replaces or reorders a stored message: every
\* conversation before a step is a prefix of the same conversation after it;
\* and whenever a request is out its user message is stored and its reply
\* is not.
C6_AppendOnly ==
    [][ /\ \A id \in DOMAIN chatHistory :
              /\ id \in DOMAIN chatHistory'
              /\ IsPrefix(chatHistory[id], chatHistory'[id])
        /\ \A t \in TextFetches' \cup FileFetches' :
              /\ \E k \in 1..Len(chatHistory'[t.chatId]) :
                     chatHistory'[t.chatId][k].id = UserMsgId(t.tid)
              /\ \A k \in 1..Len(chatHistory'[t.chatId]) :
                     chatHistory'[t.chatId][k].id # ReplyMsgId(t.tid) ]_vars

\* a file the contract rejects: over the size limit, or an image that is not
\* JPEG, PNG or WEBP
Rejectable(file) ==
    \/ file.overLimit
    \/ file.type \in {"image/bmp"}

\* C7: no request is out for a file over the size limit or of a disallowed
\* type, and no stored message carries such a file.
C7_RejectableFileNeverSubmitted ==
    /\ \A t \in FileFetches : ~Rejectable(Val(t.file))
    /\ \A id \in DOMAIN chatHistory : \A k \in 1..Len(chatHistory[id]) :
           LET a == chatHistory[id][k].attachments
           IN  ~IsNull(a) => ~Rejectable(Val(a))

\* C8: no request is out for a message containing @canvas whose handler
\* found no canvas getter when it came to take the snapshot.
C8_CanvasNotReadyAborts ==
    \A t \in TextFetches : Includes(t.msg, "@canvas") => t.getterReady

\* the fences of a reply that JSON.parse accepts and that carry a
\* desmos_expressions array, or an mcqs array, by their place in the reply
DesmosFencesOf(text) ==
    { k \in 1..Len(text.fences) :
        text.fences[k].parses /\ text.fences[k].desmosKind = "array" }

McqFencesOf(text) ==
    { k \in 1..Len(text.fences) :
        text.fences[k].parses /\ text.fences[k].mcqsKind = "array" }

\* a request has been answered with status 200
Answered == call.variant # "none" /\ call.resp.status = 200

\* C9: in both routes, for every reply whose first fence is well-formed and
\* is its only fence with a desmos_expressions array, that array being
\* non-empty and free of blank strings, desmosExpressions is exactly that
\* array; for every reply with no such fence at all it is null.
C9_GraphExtractionFirstFence ==
    Answered =>
      LET text == call.outcome.text
          D == DesmosFencesOf(text)
      IN  /\ ( /\ D = {1}
               /\ text.fences[1].desmos # << >>
               /\ \A j \in 1..Len(text.fences[1].desmos) :
                      ~IsBlank(text.fences[1].desmos[j]) )
             => call.resp.desmosExpressions = Some(text.fences[1].desmos)
          /\ D = { } => call.resp.desmosExpressions = Null

\* C9 as first stated: whenever some well-formed fence carries an array, the
\* result is the array of such a fence, empty or with empty strings as it
\* may be; with no such fence it is null.
C9_GraphExtractionExact ==
    Answered =>
      LET text == call.outcome.text
          D == DesmosFencesOf(text)
      IN  /\ D # { } => \E k \in D :
                 call.resp.desmosExpressions = Some(text.fences[k].desmos)
          /\ D = { } => call.resp.desmosExpressions = Null

\* C9 witness: a reply of two fences, the first with two expressions and
\* the second without an array, has been answered with those expressions.
C9_Witness ==
    /\ Answered
    /\ Len(call.outcome.text.fences) = 2
    /\ DesmosFencesOf(call.outcome.text) = {1}
    /\ Len(call.outcome.text.fences[1].desmos) = 2
    /\ call.resp.desmosExpressions = Some(call.outcome.text.fences[1].desmos)

\* every object's correctAnswer is one of its options
WellFormedQuiz(mcqs) ==
    \A j \in 1..Len(mcqs) :
        \E n \in 1..Len(mcqs[j].options) : mcqs[j].options[n] = mcqs[j].correctAnswer

HasText(mcq) == mcq.hasExplanation /\ mcq.explanation # ""

\* C10: in both routes, for every reply whose first fence is well-formed and
\* is its only fence with an mcqs array, every correctAnswer being one of
\* the options, mcqData has the same number of objects in the same order,
\* each with the question, options and correctAnswer of the reply and with
\* its explanation when that is a non-empty text; an absent or empty
\* explanation stays as it is in the global-scan route and becomes the text
\* "The correct answer is <correctAnswer> because..." in the other.
C10_QuizExtractionFirstFence ==
    LET text == call.outcome.text
    IN  ( /\ Answered
          /\ McqFencesOf(text) = {1}
          /\ WellFormedQuiz(text.fences[1].mcqs) )
        => LET src == text.fences[1].mcqs
               out == Val(call.resp.mcqData)
           IN  /\ ~IsNull(call.resp.mcqData)
               /\ Len(out) = Len(src)
               /\ \A j \in 1..Len(src) :
                    /\ out[j].question = src[j].question
                    /\ out[j].options = src[j].options
                    /\ out[j].correctAnswer = src[j].correctAnswer
                    /\ HasText(src[j]) =>
                           HasText(out[j]) /\ out[j].explanation = src[j].explanation
                    /\ ~HasText(src[j]) =>
                           IF call.variant = "route"
                           THEN /\ out[j].hasExplanation = src[j].hasExplanation
                                /\ out[j].explanation = src[j].explanation
                           ELSE /\ out[j].hasExplanation
                                /\ out[j].explanation =
                                       DefaultExplanation(src[j].correctAnswer)

\* C10 as first stated: whenever some well-formed fence carries a quiz whose
\* answers are among the options, mcqData is the quiz of such a fence,
\* object for object, an absent explanation staying absent.
C10_QuizExtractionUnchanged ==
    LET text == call.outcome.text
        M == { k \in McqFencesOf(text) : WellFormedQuiz(text.fences[k].mcqs) }
    IN  (Answered /\ M # { })
        => \E k \in M : call.resp.mcqData = Some(text.fences[k].mcqs)

\* C10 witness: the validating route has answered a reply whose first fence
\* holds two questions, one of them without an explanation.
C10_Witness ==
    /\ Answered
    /\ call.variant = "validated"
    /\ McqFencesOf(call.outcome.text) = {1}
    /\ WellFormedQuiz(call.outcome.text.fences[1].mcqs)
    /\ Len(call.outcome.text.fences[1].mcqs) = 2
    /\ \E j \in 1..2 : ~call.outcome.text.fences[1].mcqs[j].hasExplanation
    /\ Len(Val(call.resp.mcqData)) = 2

\* C11: every quiz the route returns has, in each object, a correctAnswer
\* that is one of its options.
C11_ReturnedQuizAnswersAmongOptions ==
    (Answered /\ ~IsNull(call.resp.mcqData))
        => WellFormedQuiz(Val(call.resp.mcqData))

\* the last request failed validation: it has no message, or its history
\* has a position with the wrong role
FailsValidation ==
    \/ call.req.message = << >>
    \/ BadPositions(call.req.history) # { }

\* C13: every request to the validating route that fails validation is
\* answered with a 400-class status, and nothing is sent to the model.
C13_ValidationFailureIs400 ==
    (call.variant = "validated" /\ FailsValidation)
        => /\ call.resp.status \in 400..499
           /\ IsNull(call.resp.sent)

\* the reply with the fences that are not valid JSON deleted
WithoutMalformed(text) ==
    Text(text.prose, SelectSeq(text.fences, LAMBDA f : f.parses))

\* the last request passed validation, the model answered it, and the
\* answer holds a fence that is not valid JSON
AnsweredWithMalformedFence ==
    /\ call.variant \in {"route", "validated"}
    /\ call.req.message # << >>
    /\ call.variant = "validated" => BadPositions(call.req.history) = { }
    /\ call.outcome.ok
    /\ \E k \in 1..Len(call.outcome.text.fences) : ~call.outcome.text.fences[k].parses

\* the graph and quiz data of the response are those the same route returns
\* for the same reply without its malformed fences
SameDataAsWithoutMalformed ==
    LET clean == Route(call.variant, call.req,
                       [ok |-> TRUE, text |-> WithoutMalformed(call.outcome.text)])
    IN  /\ call.resp.desmosExpressions = clean.desmosExpressions
        /\ call.resp.mcqData = clean.mcqData

\* C12: a reply holding a fence that is not valid JSON is answered with
\* status 200 and the full text as reply; in the global-scan route, and in
\* the validating route when the first fence of the reply is well-formed,
\* the graph and quiz data are those of the reply's well-formed fences.
C12_MalformedFenceIgnored ==
    AnsweredWithMalformedFence =>
        /\ call.resp.status = 200
        /\ call.resp.reply = Some(call.outcome.text)
        /\ (call.variant = "route" \/ call.outcome.text.fences[1].parses)
               => SameDataAsWithoutMalformed

\* C12 as first stated: in both routes, whichever fence is the malformed one.
C12_MalformedFenceIgnoredEverywhere ==
    AnsweredWithMalformedFence =>
        /\ call.resp.status = 200
        /\ call.resp.reply = Some(call.outcome.text)
        /\ SameDataAsWithoutMalformed

\* C12 witness: the global-scan route has answered a reply whose first fence
\* is malformed and whose second fence carries expressions, with those
\* expressions.
C12_Witness ==
    /\ AnsweredWithMalformedFence
    /\ call.variant = "route"
    /\ Len(call.outcome.text.fences) = 2
    /\ ~call.outcome.text.fences[1].parses
    /\ call.outcome.text.fences[2].desmos # << >>
    /\ call.resp.desmosExpressions = Some(call.outcome.text.fences[2].desmos)

\* the URL starts with data:image/(png|jpeg|jpg|webp);base64,
HasImageShape(url) ==
    url \in {"data:image/png;base64,AAAA", "data:image/png;base64,"}

\* the answer of the route of the last request to another request
SameRoute(req, outcome) ==
    IF call.variant = "oneshot" THEN POST_oneshot(req, outcome)
    ELSE POST_route(req, outcome)

\* the parts of the last request that reached the model
ModelCalled == ~IsNull(call.resp.sent)
HasBlock(b) ==
    \E k \in 1..Len(Val(call.resp.sent).blocks) : Val(call.resp.sent).blocks[k] = b

\* C14: in the global-scan route and the one-shot route, a request whose
\* canvasDataUrl is present but not of the image shape gets the status the
\* same request gets without canvasDataUrl, and when the model is called
\* (it is whenever the request has a message) no inline image part is sent.
C14_MalformedCanvasUrlDropped ==
    ( /\ call.variant \in {"route", "oneshot"}
      /\ call.req.canvasDataUrl # ""
      /\ ~HasImageShape(call.req.canvasDataUrl) )
    => /\ call.resp.status =
              SameRoute([call.req EXCEPT !.canvasDataUrl = ""], call.outcome).status
       /\ call.req.message # << >> => ModelCalled
       /\ ModelCalled => ~Val(call.resp.sent).inlineImage

\* C14 witness: the one-shot route has answered 200 to a request with a
\* message and a GIF data URL, and sent no image.
C14_Witness ==
    /\ call.variant = "oneshot"
    /\ call.req.canvasDataUrl = "data:image/gif;base64,AAAA"
    /\ call.req.message # << >>
    /\ call.resp.status = 200
    /\ ~Val(call.resp.sent).inlineImage

\* the message contains @canvas ignoring case; it contains a graph trigger
ContainsCanvasTag(msg) == \E i \in 1..Len(msg) : msg[i] \in {"@canvas", "@Canvas"}
ContainsGraphTrigger(msg) == \E i \in 1..Len(msg) : msg[i] \in {"@graph", "plot", "Plot"}

\* C15: in the global-scan route and the one-shot route, whenever the model
\* is called the canvas block is appended iff the message contains @canvas
\* (ignoring case) and no graph trigger; with a graph trigger the graph
\* instruction is appended and the canvas block is not.
C15_CanvasBlockGating ==
    (call.variant \in {"route", "oneshot"} /\ ModelCalled)
    => /\ HasBlock("canvas") <=>
              (ContainsCanvasTag(call.req.message)
               /\ ~ContainsGraphTrigger(call.req.message))
       /\ ContainsGraphTrigger(call.req.message) =>
              (HasBlock("graph") /\ ~HasBlock("canvas"))

\* C15 witness: a message with both @Canvas and a graph trigger has been
\* sent with the graph instruction and without the canvas block.
C15_Witness ==
    /\ call.variant \in {"route", "oneshot"}
    /\ ModelCalled
    /\ ContainsCanvasTag(call.req.message)
    /\ ContainsGraphTrigger(call.req.message)
    /\ HasBlock("graph")
    /\ ~HasBlock("canvas")

\* the blocks appear at most once each, in the order graph, canvas, document
InBlockOrder(blocks) ==
    LET rank(b) == CASE b = "graph" -> 1 [] b = "canvas" -> 2 [] OTHER -> 3
    IN  \A j, k \in 1..Len(blocks) : j < k => rank(blocks[j]) < rank(blocks[k])

\* C16: in the one-shot route, whenever the model is called the document
\* block is appended iff the request carries a non-image attachment, and
\* the blocks appended are in the order graph, canvas, document.
C16_DocumentBlockGating ==
    (call.variant = "oneshot" /\ ModelCalled)
    => /\ HasBlock("document") <=>
              ( /\ ~IsNull(call.req.attachmentData)
                /\ ~Val(call.req.attachmentData).isImage )
       /\ InBlockOrder(Val(call.resp.sent).blocks)

\* C17: whenever the reply of a submission carrying a non-empty list is
\* processed while the graph panel is open and its calculator exists, the
\* calculator afterwards plots exactly the expressions of that reply.
C17_ReplyReplacesPlot ==
    [][ \A t \in tasks :
          ( /\ isGraphOpen
            /\ ~IsNull(calculator)
            /\ t \in TextFetches
            /\ t \notin tasks'
            /\ Last(chatHistory'[t.chatId]).id = ReplyMsgId(t.tid)
            /\ ~IsNull(Last(chatHistory'[t.chatId]).desmosExpressions)
            /\ Val(Last(chatHistory'[t.chatId]).desmosExpressions) # << >> )
          => calculator' = Some(Val(Last(chatHistory'[t.chatId]).desmosExpressions))
      ]_vars

\* the quiz question with the given id among the stored messages
QuestionOf(mcqId) ==
    LET msgs == chatHistory[currentChatId]
        k == CHOOSE k \in 1..Len(msgs) : msgs[k].id = mcqId[1]
    IN  Val(msgs[k].mcqs)[mcqId[2] + 1]

\* every recorded result belongs to a recorded answer and says whether that
\* answer is the question's correctAnswer
ResultsAgreeWithAnswers ==
    \A mcqId \in DOMAIN mcqResults :
        /\ mcqId \in DOMAIN mcqAnswers
        /\ mcqResults[mcqId] = (mcqAnswers[mcqId] = QuestionOf(mcqId).correctAnswer)

\* C18: every selection of an option of a quiz question of the current
\* conversation records that option as the question's answer and records
\* the result correct iff the option is the question's correctAnswer; after
\* every step each recorded result agrees with the recorded answer.
C18_QuizAnswerOutcome ==
    [][ /\ \A m \in QuizMessageIds, i \in QuizIndexes, option \in QuizOptions :
              handleMcqSelection(m, i, option) =>
                  /\ mcqAnswers'[<< m, i >>] = option
                  /\ mcqResults'[<< m, i >>] =
                         (option = QuestionOf(<< m, i >>).correctAnswer)
        /\ ResultsAgreeWithAnswers' ]_vars

\* C18 witness: one question is answered correctly, another one wrongly.
C18_Witness ==
    /\ \E a \in DOMAIN mcqResults : mcqResults[a]
    /\ \E b \in DOMAIN mcqResults : ~mcqResults[b]
    /\ Cardinality(DOMAIN mcqAnswers) >= 2

\* C19: whenever the call of a submission, text or file, fails, exactly one
\* message is appended to its conversation, a model-role error message, and
\* the submission is over: nothing of it is left to issue another request.
C19_FailureAppendsOneErrorMessage ==
    [][ \A t \in tasks, o \in Outcomes :
          (handleSubmit_error(t, o) \/ handleFileUpload_error(t, o))
          => /\ Len(chatHistory'[t.chatId]) = Len(chatHistory[t.chatId]) + 1
             /\ IsPrefix(chatHistory[t.chatId], chatHistory'[t.chatId])
             /\ Last(chatHistory'[t.chatId]).role = "model"
             /\ Last(chatHistory'[t.chatId]).content.kind = "error"
             /\ \A u \in tasks' : u.tid # t.tid ]_vars

\* C20: when every submission's call has resolved and no handler is
\* suspended, the loading flag is false.
C20_IdleMeansNotLoading ==
    tasks = { } => ~isLoading

\* the submissions whose request is out, text or file
InFlight == TextFetches \cup FileFetches

\* C21: two requests of one conversation can be in flight together, and a
\* request is issued on top of another one of its conversation only by a
\* submission that passed the loading check while the flag was false: in
\* this very step, or before the await (the 150 ms canvas wait, the file
\* reader) at which its handler was suspended without having set the flag.
C21_OverlapOnlyPastLoadingCheck ==
    [][ \A u \in InFlight' \ InFlight :
          (\E t \in InFlight : t.chatId = u.chatId)
          => \/ ~isLoading
             \/ \E w \in tasks : /\ w.tid = u.tid
                                  /\ w.pc \in {"canvasWait", "reading"} ]_vars

\* C21 witness: two text requests of the same conversation are in flight at
\* the same time, and so are the user messages of both.
C21_Witness ==
    \E t, u \in TextFetches :
        /\ t.tid # u.tid
        /\ t.chatId = u.chatId
        /\ \E j, k \in 1..Len(chatHistory[t.chatId]) :
               /\ chatHistory[t.chatId][j].id = UserMsgId(t.tid)
               /\ chatHistory[t.chatId][k].id = UserMsgId(u.tid)

\* the last DELETE request came with an id (the empty id counts as none)
DeleteHasId == ~IsNull(call.id) /\ Val(call.id) # ""
\* it came from an authenticated user
DeleteAuthenticated == ~IsNull(call.session) /\ ~IsNull(Val(call.session).user)
\* the store it met held a chat with the id
DeleteChatStored == DeleteHasId /\ Val(call.id) \in DOMAIN call.before
\* that chat belongs to the authenticated user
DeleteByOwner ==
    /\ DeleteAuthenticated
    /\ DeleteChatStored
    /\ call.before[Val(call.id)] = Val(Val(call.session).user)
\* the store after the request is the store before it without the chat
DeleteRemovedChat == db = Remove(call.before, Val(call.id))

\* the step answers a DELETE request
DeleteAnswered ==
    \E id \in RequestIds, session \in Sessions, fault \in Faults :
        deleteRequest(id, session, fault)

\* C22: a DELETE request without an id answers 404; with an id but no
\* authenticated user it answers 401; with an authenticated user, a stored
\* chat of another owner answers 401, and no stored chat with the id or a
\* failing store query answers 500; it answers 200 exactly when the
\* authenticated user owns the chat and both store queries succeed; the
\* chat is deleted only in the 200 case, the store being unchanged in every
\* other case.
C22_DeleteStatuses ==
    [][ DeleteAnswered =>
          LET c == call'
              hasId == ~IsNull(c.id) /\ Val(c.id) # ""
              authed == ~IsNull(c.session) /\ ~IsNull(Val(c.session).user)
              stored == hasId /\ Val(c.id) \in DOMAIN db
              owner == authed /\ stored /\ db[Val(c.id)] = Val(Val(c.session).user)
          IN  /\ c.before = db
              /\ ~hasId => c.status = 404
              /\ (hasId /\ ~authed) => c.status = 401
              /\ (authed /\ stored /\ ~owner /\ c.fault # "getChatById")
                     => c.status = 401
              /\ (hasId /\ authed /\ (~stored \/ c.fault = "getChatById"))
                     => c.status = 500
              /\ (owner /\ c.fault # "none") => c.status = 500
              /\ c.status = 200 <=> (owner /\ c.fault = "none")
              /\ c.status = 200 => db' = Remove(db, Val(c.id))
              /\ c.status # 200 => db' = db ]_vars

\* C22 as first stated: 404 without an id, 401 for no user or for a user
\* who is not the owner, 200 exactly for the owner, a deletion only with 200.
C22_DeleteStatusesNoFailure ==
    [][ DeleteAnswered =>
          LET c == call'
              hasId == ~IsNull(c.id) /\ Val(c.id) # ""
              authed == ~IsNull(c.session) /\ ~IsNull(Val(c.session).user)
              owner == /\ authed /\ hasId /\ Val(c.id) \in DOMAIN db
                       /\ db[Val(c.id)] = Val(Val(c.session).user)
          IN  /\ ~hasId => c.status = 404
              /\ (hasId /\ ~owner) => c.status = 401
              /\ c.status = 200 <=> owner
              /\ c.status = 200 => db' = Remove(db, Val(c.id))
              /\ c.status # 200 => db' = db ]_vars

\* C22 witness: with two chats stored, the owner of one has just deleted
\* it, and the other chat is still there.
C22_Witness ==
    /\ call.variant = "delete"
    /\ call.status = 200
    /\ Cardinality(DOMAIN call.before) = 2
    /\ DeleteByOwner
    /\ DeleteRemovedChat
    /\ Cardinality(DOMAIN db) = 1

\* the largest member of a non-empty set of positions
LargestOf(S) == CHOOSE x \in S : \A y \in S : y <= x

\* what the claim about several fences says the graph list and the quiz
\* list of the answer to a reply are
LastFenceData(text) ==
    LET D == DesmosFencesOf(text)
        M == McqFencesOf(text)
    IN  [desmosExpressions |->
             IF D = { } \/ text.fences[LargestOf(D)].desmos = << >> THEN Null
             ELSE Some(text.fences[LargestOf(D)].desmos),
         mcqData |->
             IF M = { } THEN Null ELSE Some(text.fences[LargestOf(M)].mcqs)]

\* the answer of the one-shot route to the message of the last request and
\* the same reply of the model
OneShotAnswer ==
    POST_oneshot(OneShotRequest(call.req.message, call.req.canvasDataUrl, Null),
                 call.outcome)

\* C23: in the global-scan route and in the one-shot route, the graph list
\* returned for a reply is the desmos_expressions array of the last
\* parseable fence that has one (null when that array is empty, whatever
\* earlier fences hold, and when no fence has one), and the quiz list is
\* the mcqs array of the last parseable fence that has one, each chosen
\* independently of the other.
C23_LastFenceWins ==
    (Answered /\ call.variant = "route") =>
        LET expected == LastFenceData(call.outcome.text)
        IN  /\ call.resp.desmosExpressions = expected.desmosExpressions
            /\ call.resp.mcqData = expected.mcqData
            /\ OneShotAnswer.status = 200
            /\ OneShotAnswer.desmosExpressions = expected.desmosExpressions
            /\ OneShotAnswer.mcqData = expected.mcqData

\* C23 witness: the global-scan route has answered null for a reply whose
\* first fence carries expressions and whose second fence carries an empty
\* array.
C23_Witness ==
    /\ Answered
    /\ call.variant = "route"
    /\ Len(call.outcome.text.fences) = 2
    /\ DesmosFencesOf(call.outcome.text) = {1, 2}
    /\ call.outcome.text.fences[1].desmos # << >>
    /\ call.outcome.text.fences[2].desmos = << >>
    /\ call.resp.desmosExpressions = Null

\* what a calculator created for the list plots: the list when it has
\* expressions, nothing otherwise
FreshPlot(desmosExpressions) ==
    IF ~IsNull(desmosExpressions) /\ Len(Val(desmosExpressions)) > 0
    THEN Some(Val(desmosExpressions)) ELSE Some(<< >>)

\* C24: a calculator exists only while the graph panel is open; while the
\* panel stays open the calculator it has is kept, and a poll that finds
\* one creates no other; closing the panel destroys the calculator; and the
\* poll of a panel that was closed and is open again creates a calculator
\* that plots the current list when the list is non-empty.
C24_CalculatorLifecycle ==
    [][ /\ ~IsNull(calculator') => isGraphOpen'
        /\ (isGraphOpen /\ isGraphOpen' /\ ~IsNull(calculator))
               => ~IsNull(calculator')
        /\ (desmosPoll /\ ~IsNull(calculator)) => calculator' = calculator
        /\ (isGraphOpen /\ ~isGraphOpen') => IsNull(calculator')
        /\ (desmosPoll /\ graphClosedOnce /\ IsNull(calculator))
               => calculator' = FreshPlot(currentDesmosExpressions) ]_vars

\* C25: whenever the handler of a message containing @canvas comes to ask
\* for the snapshot (the wait is over and the getter is set), the canvas
\* panel is open, whatever it was when the user submitted.
C25_CanvasOpenAtSnapshot ==
    [][ \A t \in tasks :
          (handleSubmit_afterWait(t) /\ Includes(t.msg, "@canvas") /\ canvasGetter)
          => isCanvasOpen ]_vars

\* the request of text submission t is the first user turn of its
\* conversation: the conversation was empty when it was submitted and its
\* message is the first one stored
FirstTurn(t) ==
    /\ t.closureMessages = << >>
    /\ Len(chatHistory[t.chatId]) > 0
    /\ chatHistory[t.chatId][1].id = UserMsgId(t.tid)

\* C26: for every text submission that is the first user turn of its
\* conversation and whose request is out, whenever the route calls the
\* model the text part it sends contains the system instruction.
C26_FirstTurnCarriesSystemInstruction ==
    \A t \in TextFetches, o \in Outcomes :
        LET r == ResponseOf(t, o)
        IN  (FirstTurn(t) /\ o.net /\ ~IsNull(r.sent))
                => Val(r.sent).systemInstruction

\* the ids handed out so far; every one of them got an entry in the store
\* when it became the conversation shown, so one without an entry was
\* deleted
IssuedChatIds == 1..(nextChatId - 1)
DeletedChatIds == IssuedChatIds \ DOMAIN chatHistory

\* C27: handleDeleteChat(id) leaves the store without an entry for id, and
\* no later step gives a deleted conversation an entry again, neither an
\* empty one nor one made of the reply or error message of a request that
\* was issued before the deletion.
C27_DeletedStaysDeleted ==
    [][ /\ \A id \in DOMAIN chatHistory :
              handleDeleteChat(id) => id \notin DOMAIN chatHistory'
        /\ \A id \in DeletedChatIds : id \notin DOMAIN chatHistory' ]_vars

\* C28: the step in which the call of a text submission resolves appends
\* one message, the reply or the error message of that submission, to the
\* conversation the submission was made in, and leaves every other
\* conversation as it was: in particular the one shown, when the user has
\* selected or created another conversation in the meantime.
C28_ReplyGoesToItsConversation ==
    [][ \A t \in tasks, o \in ChatOutcomes :
          (handleSubmit_reply(t, o) \/ handleSubmit_error(t, o))
          => /\ t.chatId \in DOMAIN chatHistory'
             /\ Len(chatHistory'[t.chatId]) = Len(Get(chatHistory, t.chatId)) + 1
             /\ IsPrefix(Get(chatHistory, t.chatId), chatHistory'[t.chatId])
             /\ Last(chatHistory'[t.chatId]).id = ReplyMsgId(t.tid)
             /\ Last(chatHistory'[t.chatId]).role = "model"
             /\ \A id \in DOMAIN chatHistory \ {t.chatId} :
                    /\ id \in DOMAIN chatHistory'
                    /\ chatHistory'[id] = chatHistory[id]
             /\ currentChatId' = currentChatId ]_vars

\* C28 witness: a call has resolved while another conversation than its
\* own was shown; its message is in its own conversation, after the user
\* message of its submission, and not in the conversation that was shown.
C28_Witness ==
    \E r \in resolvedAway :
        /\ r.chatId # r.shown
        /\ r.chatId \in DOMAIN chatHistory
        /\ r.shown \in DOMAIN chatHistory
        /\ \E j, k \in 1..Len(chatHistory[r.chatId]) :
               /\ j < k
               /\ chatHistory[r.chatId][j].id = UserMsgId(r.tid)
               /\ chatHistory[r.chatId][k].id = ReplyMsgId(r.tid)
        /\ \A k \in 1..Len(chatHistory[r.shown]) :
               chatHistory[r.shown][k].id # ReplyMsgId(r.tid)

\* the expressions carried by the replies stored in a conversation
ExpressionsOfReplies(msgs) ==
    { e \in {"y=x^2", "y=2x", "y=3x"} :
        \E k \in 1..Len(msgs) :
            /\ ~IsNull(msgs[k].desmosExpressions)
            /\ \E n \in 1..Len(Val(msgs[k].desmosExpressions)) :
                   Val(msgs[k].desmosExpressions)[n] = e }

\* the expressions the calculator plots
Plotted ==
    IF IsNull(calculator) THEN { }
    ELSE { Val(calculator)[n] : n \in 1..Len(Val(calculator)) }

\* the newest message of the conversation shown is the user message of a
\* submission still waiting for its reply, or a reply without expressions
AwaitingOrGraphless(msgs) ==
    /\ Len(msgs) > 0
    /\ \/ Last(msgs).role = "user"
       \/ /\ Last(msgs).role = "model"
          /\ Last(msgs).content.kind # "error"
          /\ IsNull(Last(msgs).desmosExpressions)

\* C29: from the submission of a message until a graph-bearing reply to it
\* arrives, and afterwards if its reply carries no expressions, an open
\* graph panel plots none of the expressions of an earlier reply.
C29_SubmissionClearsGraph ==
    (isGraphOpen /\ AwaitingOrGraphless(chatHistory[currentChatId]))
        => Plotted \cap ExpressionsOfReplies(chatHistory[currentChatId]) = { }

\* the undo stack has one entry per stroke on the canvas, and the entry at
\* index k, counting from 0 as the code does, is the list of the first k
\* strokes: the canvas as it was when stroke k + 1 started
StackMirrorsStrokes ==
    /\ Len(canvasHistory) = Len(canvasLines)
    /\ \A k \in 0..(Len(canvasHistory) - 1) :
          canvasHistory[k + 1] = SubSeq(canvasLines, 1, k)

\* C30: after any sequence of stroke starts, undos and clears the undo
\* stack has exactly as many entries as there are strokes on the canvas and
\* its entry k (from 0) is the list of the first k strokes; undo removes
\* exactly the most recent stroke and the top entry, and changes nothing
\* when the stack is empty.
C30_UndoStackMirrorsStrokes ==
    [][ /\ StackMirrorsStrokes'
        /\ undo =>
              IF canvasHistory = << >>
              THEN UNCHANGED << canvasLines, canvasHistory >>
              ELSE /\ canvasLines' = SubSeq(canvasLines, 1, Len(canvasLines) - 1)
                   /\ canvasHistory' = SubSeq(canvasHistory, 1, Len(canvasHistory) - 1)
      ]_vars

\* C30 witness: the second of three strokes was undone before the third
\* was drawn: strokes 1 and 3 are on the canvas, and the stack holds the
\* empty canvas and the canvas with stroke 1.
C30_Witness ==
    /\ Len(canvasLines) = 2
    /\ canvasLines[1].id = 1
    /\ canvasLines[2].id = 3
    /\ canvasHistory = << << >>, << canvasLines[1] >> >>

=============================================================================
